---- MODULE Spec2Model ----
(***************************************************************************)
(* Verification model of the secret-agent core:                            *)
(*   - the session pool and CoreServerConnection life cycle                *)
(*     (core/lib/CoreServerConnection.ts, GlobalPool, Session),            *)
(*   - the LocationTracker wait/announce state machine                     *)
(*     (core/lib/LocationTracker.ts over session-state TabNavigations).    *)
(* Each part has its own specification over the shared variable tuple;     *)
(* the variables of the other part stay at their initial values.           *)
(***************************************************************************)
EXTENDS Integers, Sequences, FiniteSets, TLC

(***************************************************************************)
(* Bounds of the model                                                     *)
(***************************************************************************)
\* configured GlobalPool.maxConcurrentAgentsCount of the modelled pool
MaxConcurrentAgentsCount == 1
\* createSession calls issued to the connection
MaxCalls == 2
\* disconnect requests of the client that take effect (the timer adds its own)
MaxDisconnects == 1

\* navigation attempts of the tab
MaxNavigations == 1
\* waitFor calls made on the tab's LocationTracker
MaxWaits == 1
\* commands run on the tab
MaxCommands == 1
\* redirects folded into one lifecycle update
MaxRedirects == 2
\* resource ids handed out by the network capture
MaxResources == 2
\* latest reading of the clock
MaxTime == 3
\* captureWebsocketMessage calls
MaxMessages == 2
\* websocket listener functions, and registrations made with them
MaxListeners == 1
\* log entries emitted on the process-wide log stream
MaxLogEntries == 2
\* requests the connection is asked to handle
MaxRequests == 2
\* agents a handler dispatches
MaxAgents == 2
\* entries of a tab's navigation history when page events arrive
MaxHistory == 2
\* commands a tab has run when the next one starts
MaxPrevious == 2
\* events in one batch of page events
MaxEvents == 2
\* agents one script instance names
MaxNames == 3

Calls == 1 .. MaxCalls

Agents == 1 .. MaxAgents

VARIABLES
    \* ---- pool / connection ----
    callState,              \* position of each createSession call
    session,                \* life cycle of the session created for a call
    activeSessionCount,     \* GlobalPool: slots in use
    waitingForAvailability, \* GlobalPool: FIFO of calls waiting for a slot
    isClosing,              \* CoreServerConnection.isClosing
    isPersistent,           \* CoreServerConnection.isPersistent
    sessionIds,             \* CoreServerConnection.sessionIds
    autoShutdownTimer,      \* TRUE while the auto-shutdown timeout is armed
    disconnectAwaits,       \* per in-flight disconnect: the sessions whose close it awaits
    closeEvents,            \* number of 'close' events the connection emitted
    queued,                 \* history: calls that had to wait for a slot
    \* ---- tab navigations / LocationTracker ----
    history,                \* TabNavigations.history: the navigation entries
    commands,               \* SessionState.commands: names, the id is the position
    defaultWaitForLocationCommandId, \* LocationTracker: default wait anchor
    waitForCbs,             \* LocationTracker.waitForCbs: waiters per status
    waits,                  \* every waitFor call made, with its outcome
    resolveOrder,           \* the waiters resolved, in the order of their resolve()
    \* ---- session state recorder ----
    closeDate,              \* SessionState.closeDate: "undefined" or "set"
    resourceWaits,          \* every waitForLocationResourceId call, with its outcome
    now,                    \* the clock read by new Date(); 0 stands for no date
    commandMetas,           \* the ICommandMeta of each entry of SessionState.commands
    commandCalls,           \* per runCommand call: what commandFn did, what the caller got
    commandRows,            \* db.commands: the rows of the command table
    dbOpen,                 \* the session's store is open (db.close not yet called)
    browserRequestIdToResources, \* SessionState: resource ids per browser request id
    websocketMessages,      \* SessionState.websocketMessages
    websocketListeners,     \* SessionState.websocketListeners: listeners per resource id
    websocketMessageIdCounter, \* SessionState.websocketMessageIdCounter
    websocketRows,          \* db.websocketMessages: the rows inserted
    delivered,              \* per listener function: the messages it was called with
    captureReturns,         \* what each captureWebsocketMessage call returned (0: nothing)
    listens,                \* number of onWebsocketMessages calls made
    lastErrorTime,          \* SessionState.lastErrorTime (0: undefined)
    sessionLogs,            \* db.sessionLogs: the rows inserted
    navigationsByTabId,     \* SessionState.navigationsByTabId: each tab's top navigation
    responsive,             \* what the last checkForResponsive call returned
    \* ---- the sessions of the process ----
    registry,               \* SessionState.registry: the session ids it maps
    sessionLife,            \* per session id: "none", "open" (constructed) or "closed"
    logSubscribers,         \* LogEvents: the sessions whose onLogEvent is subscribed
    lastErrorTimeOf,        \* per session id: SessionState.lastErrorTime (0: undefined)
    sessionLogsOf,          \* per session id: db.sessionLogs, the rows inserted
    logEntries,             \* the entries emitted on the log stream so far
    \* ---- captured resources ----
    sessionResources,       \* SessionState.resources
    resourceRows,           \* db.resources: the rows inserted
    notifications,          \* the resourceLoadedForLocation calls made by the captures
    resourceCaptures,       \* number of captureResource / captureResourceError calls
    \* ---- requests handled by the connection ----
    requests,               \* the payloads handled, by messageId, with their position
    emitted,                \* the 'message' events the connection emitted
    \* ---- client: the agents of a handler ----
    agents,                 \* per agent: dispatch position, hasConnected, isClosing, ...
    outgoing,               \* the commands sent to the core, in order
    handlerClosed,          \* handler.close() was called
    scriptInstance,         \* ScriptInstance: sessionNameCountByName, names returned
    \* ---- page events ----
    pageEvents,             \* the batches of a page-events message not yet handled
    domChangeRows,          \* db.domChanges: the rows inserted
    mouseEventRows,         \* db.mouseEvents: the rows inserted
    focusEventRows,         \* db.focusEvents: the rows inserted
    scrollEventRows         \* db.scrollEvents: the rows inserted

poolVars == <<callState, session, activeSessionCount, waitingForAvailability,
              isClosing, isPersistent, sessionIds, autoShutdownTimer,
              disconnectAwaits, closeEvents, queued>>

locVars == <<history, commands, defaultWaitForLocationCommandId,
             waitForCbs, waits, resolveOrder>>

cmdVars == <<now, commandMetas, commandCalls, commandRows, dbOpen>>

wsVars == <<browserRequestIdToResources, websocketMessages, websocketListeners,
            websocketMessageIdCounter, websocketRows, delivered, captureReturns,
            listens>>

logVars == <<lastErrorTime, sessionLogs>>

respVars == <<navigationsByTabId, responsive>>

regVars == <<registry, sessionLife, logSubscribers, lastErrorTimeOf, sessionLogsOf,
             logEntries>>

resVars == <<sessionResources, resourceRows, notifications, resourceCaptures>>

reqVars == <<requests, emitted>>

cliVars == <<agents, outgoing, handlerClosed, scriptInstance>>

evtVars == <<pageEvents, domChangeRows, mouseEventRows, focusEventRows,
             scrollEventRows>>

recVars == <<closeDate, resourceWaits, cmdVars, wsVars, logVars, respVars, regVars,
             resVars, reqVars, cliVars, evtVars>>

vars == <<poolVars, locVars, recVars>>

(***************************************************************************)
(* GlobalPool (admission control) and Session life cycle                   *)
(***************************************************************************)
Min(a, b) == IF a < b THEN a ELSE b

OpenSessions == {s \in Calls : session[s] = "open"}

\* the first n entries of a sequence / the rest
Take(q, n) == SubSeq(q, 1, n)
Drop(q, n) == SubSeq(q, n + 1, Len(q))
Range(q) == {q[i] : i \in 1 .. Len(q)}

\* GlobalPool.createSession: take a slot now, or queue the call
PoolHasAvailability == activeSessionCount < MaxConcurrentAgentsCount

\* Releasing n slots hands them to the longest waiting calls (FIFO).
\* Result: the calls admitted by the release.
AdmittedOnRelease(n) == Take(waitingForAvailability, Min(n, Len(waitingForAvailability)))

\* the sessions whose 'closing' and 'closed' events the connection listens
\* to: those its createSession has registered
listening == {c \in Calls : callState[c] \in {"creatingTab", "done"}}

\* Session.close() of every session in closing (all of them open): each
\* leaves the open set, emits 'closing' (the connection forgets its id, the
\* pool releases its slot and admits waiting calls).
BeginCloseAll(closing, released) ==
    LET admitted == AdmittedOnRelease(released)
        adm == Range(admitted)
    IN  /\ session' = [s \in Calls |->
                          IF s \in closing THEN "closing"
                          ELSE IF s \in adm THEN "open"
                          ELSE session[s]]
        /\ callState' = [c \in Calls |-> IF c \in adm THEN "created" ELSE callState[c]]
        /\ waitingForAvailability' = Drop(waitingForAvailability, Len(admitted))
        /\ activeSessionCount' = activeSessionCount - released + Len(admitted)
        /\ sessionIds' = sessionIds \ (closing \cap listening)

(***************************************************************************)
(* CoreServerConnection                                                    *)
(***************************************************************************)
\* isActive looking at the owned sessions alone
isActive_SessionsOnly(ids, persistent) == ids # {}

isActive(ids, persistent) == ids # {} \/ persistent


\* createSession taking a slot without asking the pool for availability
createSession_NoAdmission(c) ==
    /\ callState[c] = "idle"
    /\ IF isClosing
       THEN /\ callState' = [callState EXCEPT ![c] = "failed"]
            /\ UNCHANGED <<session, activeSessionCount, autoShutdownTimer>>
       ELSE /\ autoShutdownTimer' = FALSE
            /\ activeSessionCount' = activeSessionCount + 1
            /\ session' = [session EXCEPT ![c] = "open"]
            /\ callState' = [callState EXCEPT ![c] = "created"]
    /\ UNCHANGED <<waitingForAvailability, isClosing, isPersistent, sessionIds,
                   disconnectAwaits, closeEvents, queued>>
    /\ UNCHANGED <<locVars, recVars>>

\* createSession going on to the pool whatever isClosing is
createSessionCall_IgnoresClosing(c) ==
    /\ callState[c] = "idle"
    /\ autoShutdownTimer' = FALSE
    /\ IF PoolHasAvailability
       THEN /\ activeSessionCount' = activeSessionCount + 1
            /\ session' = [session EXCEPT ![c] = "open"]
            /\ callState' = [callState EXCEPT ![c] = "created"]
            /\ UNCHANGED waitingForAvailability
       ELSE /\ waitingForAvailability' = Append(waitingForAvailability, c)
            /\ callState' = [callState EXCEPT ![c] = "waiting"]
            /\ UNCHANGED <<session, activeSessionCount>>
    /\ queued' = IF callState'[c] = "waiting" THEN queued \cup {c} ELSE queued
    /\ UNCHANGED <<isClosing, isPersistent, sessionIds, disconnectAwaits,
                   closeEvents>>

\* createSession, up to the await of GlobalPool.createSession
createSessionCall(c) ==
    /\ callState[c] = "idle"
    /\ IF isClosing
       THEN /\ callState' = [callState EXCEPT ![c] = "failed"]
            /\ UNCHANGED <<session, activeSessionCount, waitingForAvailability,
                           autoShutdownTimer>>
       ELSE /\ autoShutdownTimer' = FALSE
            /\ IF PoolHasAvailability
               THEN /\ activeSessionCount' = activeSessionCount + 1
                    /\ session' = [session EXCEPT ![c] = "open"]
                    /\ callState' = [callState EXCEPT ![c] = "created"]
                    /\ UNCHANGED waitingForAvailability
               ELSE /\ waitingForAvailability' = Append(waitingForAvailability, c)
                    /\ callState' = [callState EXCEPT ![c] = "waiting"]
                    /\ UNCHANGED <<session, activeSessionCount>>
    /\ queued' = IF callState'[c] = "waiting" THEN queued \cup {c} ELSE queued
    /\ UNCHANGED <<isClosing, isPersistent, sessionIds, disconnectAwaits,
                   closeEvents>>

\* createSession called by the owner of the connection
createSession(c) ==
    /\ createSessionCall(c)
    /\ UNCHANGED <<locVars, recVars>>

\* createSession resumes with the session: registers it and starts createTab
createSessionRegister(c) ==
    /\ callState[c] = "created"
    /\ callState' = [callState EXCEPT ![c] = "creatingTab"]
    /\ sessionIds' = sessionIds \cup {c}
    /\ UNCHANGED <<session, activeSessionCount, waitingForAvailability, isClosing,
                   isPersistent, autoShutdownTimer, disconnectAwaits, closeEvents,
                   queued>>
    /\ UNCHANGED <<locVars, recVars>>

\* session.createTab() resolved: createSession returns the session meta
createSessionReturn(c) ==
    /\ callState[c] = "creatingTab"
    /\ callState' = [callState EXCEPT ![c] = "done"]
    /\ UNCHANGED <<session, activeSessionCount, waitingForAvailability, isClosing,
                   isPersistent, sessionIds, autoShutdownTimer,
                   disconnectAwaits, closeEvents, queued>>
    /\ UNCHANGED <<locVars, recVars>>

\* closeSession looking the session up under a key that is never registered
closeSession_NotFound(s) ==
    /\ callState[s] = "done"
    /\ UNCHANGED vars

\* closeSession(meta): Session.get(id)?.close() -- nothing when the session is
\* no longer registered
closeSession(s) ==
    /\ callState[s] = "done"
    /\ IF session[s] = "open"
       THEN BeginCloseAll({s}, 1)
       ELSE UNCHANGED <<session, callState, waitingForAvailability,
                        activeSessionCount, sessionIds>>
    /\ UNCHANGED <<isClosing, isPersistent, autoShutdownTimer,
                   disconnectAwaits, closeEvents, queued>>
    /\ UNCHANGED <<locVars, recVars>>

\* Session.close() finished: 'closed' is emitted, the connection runs
\* checkForAutoShutdown
sessionClosed(s) ==
    /\ session[s] = "closing"
    /\ session' = [session EXCEPT ![s] = "closed"]
    /\ autoShutdownTimer' =
          IF s \in listening /\ ~isActive(sessionIds, isPersistent)
          THEN TRUE ELSE autoShutdownTimer
    /\ UNCHANGED <<callState, activeSessionCount, waitingForAvailability, isClosing,
                   isPersistent, sessionIds, disconnectAwaits, closeEvents,
                   queued>>
    /\ UNCHANGED <<locVars, recVars>>

\* disconnect(), up to the await of Promise.all(closeAll)
disconnectBegin ==
    IF isClosing
    THEN UNCHANGED <<callState, session, activeSessionCount, waitingForAvailability,
                     isClosing, sessionIds, autoShutdownTimer, disconnectAwaits>>
    ELSE LET closing == {s \in sessionIds : session[s] = "open"}
             awaited == {s \in sessionIds : session[s] \in {"open", "closing"}}
         IN  /\ isClosing' = TRUE
             /\ autoShutdownTimer' = FALSE
             /\ BeginCloseAll(closing, Cardinality(closing))
             /\ disconnectAwaits' = Append(disconnectAwaits, awaited)

connect(persistent) ==
    /\ isPersistent' = persistent
    /\ isClosing' = FALSE
    /\ UNCHANGED <<callState, session, activeSessionCount, waitingForAvailability,
                   sessionIds, autoShutdownTimer, disconnectAwaits,
                   closeEvents, queued>>
    /\ UNCHANGED <<locVars, recVars>>

\* a disconnect request of the client
disconnect ==
    /\ closeEvents + Len(disconnectAwaits) < MaxDisconnects
    /\ disconnectBegin
    /\ UNCHANGED <<isPersistent, closeEvents, queued>>
    /\ UNCHANGED <<locVars, recVars>>

\* the auto-shutdown timeout set by checkForAutoShutdown expires
autoShutdownTimeout ==
    /\ autoShutdownTimer
    /\ IF isActive(sessionIds, isPersistent)
       THEN /\ autoShutdownTimer' = FALSE
            /\ UNCHANGED <<callState, session, activeSessionCount,
                           waitingForAvailability, isClosing, sessionIds,
                           disconnectAwaits>>
       ELSE IF isClosing
            THEN /\ autoShutdownTimer' = FALSE
                 /\ UNCHANGED <<callState, session, activeSessionCount,
                                waitingForAvailability, isClosing, sessionIds,
                                disconnectAwaits>>
            ELSE disconnectBegin
    /\ UNCHANGED <<isPersistent, closeEvents, queued>>
    /\ UNCHANGED <<locVars, recVars>>

\* disconnect() resumes once every awaited close finished
disconnectFinish ==
    /\ disconnectAwaits # <<>>
    /\ \E i \in 1 .. Len(disconnectAwaits) :
          /\ \A s \in disconnectAwaits[i] : session[s] = "closed"
          /\ disconnectAwaits' = [j \in 1 .. (Len(disconnectAwaits) - 1) |->
                                     IF j < i THEN disconnectAwaits[j]
                                     ELSE disconnectAwaits[j + 1]]
    /\ isPersistent' = FALSE
    /\ closeEvents' = closeEvents + 1
    /\ UNCHANGED <<callState, session, activeSessionCount, waitingForAvailability,
                   isClosing, sessionIds, autoShutdownTimer, queued>>
    /\ UNCHANGED <<locVars, recVars>>

(***************************************************************************)
(* core-interfaces Location: statuses, triggers and pipeline steps         *)
(***************************************************************************)
READY == "READY"

\* Object.keys(PipelineStatus): pipelineKeys[step] is PipelineKeys[step + 1]
PipelineKeys == <<"NavigationRequested", "HttpRequested", "HttpRedirected",
                  "HttpResponded", "DomContentLoaded", "AllContentLoaded">>

PipelineStatuses == Range(PipelineKeys)
LocationTrigger == {"reload", "change"}
LocationStatuses == LocationTrigger \cup PipelineStatuses

\* the statuses a lifecycle event can carry (NavigationRequested is the
\* creation of the entry)
LifecycleStatuses == PipelineStatuses \ {"NavigationRequested"}

NavigationReasons == {"newTab", "goto", "reload", "httpHeaderRefresh", "metaTagRefresh"}

\* sinceCommandId left out by the caller
Omitted == -1

getStepByStatus(status) == CHOOSE step \in 0 .. 5 : PipelineKeys[step + 1] = status

\* getPipelineStatus with the comparison reversed: the lowest recorded step
getPipelineStatus_Lowest(page) ==
    LET steps == {getStepByStatus(status) : status \in page.stateChanges}
    IN  IF steps = {} THEN 0 ELSE CHOOSE m \in steps : \A x \in steps : m <= x

\* the highest step among the keys of page.stateChanges (the keys are
\* modelled, the timestamps they map to are not)
getPipelineStatus(page) ==
    LET steps == {getStepByStatus(status) : status \in page.stateChanges}
    IN  IF steps = {} THEN 0 ELSE CHOOSE m \in steps : \A x \in steps : x <= m

hasTop == history # <<>>
top == history[Len(history)]

currentStep == IF ~hasTop THEN 0 ELSE getPipelineStatus(top)

\* getTriggerForNavigationReason treating a new tab's first url as a change
getTriggerForNavigationReason_NewTabChange(reason) ==
    IF reason \in {"httpHeaderRefresh", "metaTagRefresh", "reload"}
    THEN "reload" ELSE "change"

\* getTriggerForNavigationReason classing only 'reload' as a reload
getTriggerForNavigationReason_OnlyReload(reason) ==
    IF reason = "newTab" THEN "null"
    ELSE IF reason = "reload" THEN "reload" ELSE "change"

getTriggerForNavigationReason(reason) ==
    IF reason = "newTab" THEN "null"
    ELSE IF reason \in {"httpHeaderRefresh", "metaTagRefresh", "reload"}
         THEN "reload" ELSE "change"

\* hasTriggerSinceCommand without the inclusive comparison
hasTriggerSinceCommand_Exclusive(trigger, sinceCommandId, inclusive) ==
    \E i \in 1 .. Len(history) :
        /\ history[i].startCommandId > sinceCommandId
        /\ getTriggerForNavigationReason(history[i].navigationReason) = trigger

hasTriggerSinceCommand(trigger, sinceCommandId, inclusive) ==
    \E i \in 1 .. Len(history) :
        /\ \/ history[i].startCommandId > sinceCommandId
           \/ inclusive /\ history[i].startCommandId >= sinceCommandId
        /\ getTriggerForNavigationReason(history[i].navigationReason) = trigger

(***************************************************************************)
(* LocationTracker                                                         *)
(***************************************************************************)
StartsWithWaitFor(name) == name \in {"waitForLocation", "waitForElement"}

\* the loop of willRunCommand over previousCommands, from position i on
RECURSIVE ScanCommands(_, _, _)
ScanCommands(previous, i, anchor) ==
    IF i > Len(previous) THEN anchor
    ELSE LET afterGoto == IF previous[i] = "goto" THEN i ELSE anchor
             afterWait == IF i > 1 /\ StartsWithWaitFor(previous[i - 1])
                             /\ ~StartsWithWaitFor(previous[i])
                          THEN i ELSE afterGoto
         IN  ScanCommands(previous, i + 1, afterWait)

\* willRunCommand without the case of two waitForLocation in a row
willRunCommand_ScanOnly(newName, newId, previous, anchor) ==
    ScanCommands(previous, 1, anchor)

\* the value of defaultWaitForLocationCommandId after willRunCommand
willRunCommand(newName, newId, previous, anchor) ==
    LET scanned == ScanCommands(previous, 1, anchor)
    IN  IF newName = "waitForLocation" /\ previous # <<>>
           /\ StartsWithWaitFor(previous[Len(previous)])
        THEN newId ELSE scanned

\* a command starts on the tab: willRunCommand, then SessionState.runCommand
\* appends it
runCommandUpTo(name, limit) ==
    /\ Len(commands) < limit
    /\ defaultWaitForLocationCommandId' =
          willRunCommand(name, Len(commands) + 1, commands,
                         defaultWaitForLocationCommandId)
    /\ commands' = Append(commands, name)
    /\ UNCHANGED <<history, waitForCbs, waits, resolveOrder>>
    /\ UNCHANGED <<poolVars, recVars>>

runCommand(name) == runCommandUpTo(name, MaxCommands)

\* the statuses whose waiters onPipelineStatusChange runs, announcing every
\* step passed, redirects included
StatusesToAnnounce_EveryStep(lastStep, incomingStep) ==
    LET newStep == IF incomingStep > lastStep THEN incomingStep ELSE lastStep
    IN  {PipelineKeys[step + 1] : step \in (lastStep + 1) .. newStep}

\* the statuses whose waiters onPipelineStatusChange runs
StatusesToAnnounce(lastStep, incomingStep) ==
    LET newStep == IF incomingStep > lastStep THEN incomingStep ELSE lastStep
    IN  {PipelineKeys[step + 1] : step \in
            {st \in (lastStep + 1) .. newStep :
                PipelineKeys[st + 1] # "HttpRedirected" \/ st = newStep}}

\* runWaitForCbs for every status in announced: the waiters are resolved and
\* their lists emptied
WaitersOf(announced) == UNION {Range(waitForCbs[st]) : st \in announced}

\* the statuses in the order their waiters are run: a trigger alone, the
\* pipeline statuses by step
StatusOrder == <<"reload", "change">> \o PipelineKeys

\* runWaitForCbs popping the waiters from the end of the list
Shifted_FromEnd(cbs) == [i \in DOMAIN cbs |-> cbs[Len(cbs) + 1 - i]]

\* the while loop of runWaitForCbs: shift() until the list is empty
Shifted(cbs) == cbs

RECURSIVE ReleasedBy(_, _)
ReleasedBy(announced, i) ==
    IF i > Len(StatusOrder) THEN <<>>
    ELSE (IF StatusOrder[i] \in announced THEN Shifted(waitForCbs[StatusOrder[i]])
          ELSE <<>>) \o ReleasedBy(announced, i + 1)

runWaitForCbs(announced) ==
    /\ waitForCbs' = [st \in LocationStatuses |->
                         IF st \in announced THEN <<>> ELSE waitForCbs[st]]
    /\ resolveOrder' = resolveOrder \o ReleasedBy(announced, 1)
    /\ waits' = [w \in DOMAIN waits |->
                    IF w \in WaitersOf(announced)
                    THEN [waits[w] EXCEPT !.resolved = @ + 1]
                    ELSE waits[w]]

\* waitFor mapping READY to the end of the pipeline
waitForStatus_ReadyIsAllContentLoaded(status) ==
    IF status = READY THEN "AllContentLoaded" ELSE status

\* the status waitFor goes on with
waitForStatus(status) == IF status = READY THEN "DomContentLoaded" ELSE status

\* PipelineStatus[status] as a condition: a step other than 0
IsTruthyPipelineStatus(status) ==
    status \in PipelineStatuses /\ getStepByStatus(status) # 0

\* waitFor returns without a promise
ResolvesAtOnce(status, anchor, inclusive) ==
    \/ /\ status \in LocationTrigger
       /\ hasTriggerSinceCommand(status, anchor, inclusive)
    \/ /\ IsTruthyPipelineStatus(status)
       /\ getStepByStatus(status) # 0
       /\ getStepByStatus(status) <= currentStep

waitFor(asked, sinceCommandId, inclusiveOfCommandId) ==
    /\ Len(waits) < MaxWaits
    /\ LET status == waitForStatus(asked)
           anchor == IF sinceCommandId = Omitted
                     THEN defaultWaitForLocationCommandId ELSE sinceCommandId
           atOnce == \/ asked = READY /\ ~hasTop
                     \/ ResolvesAtOnce(status, anchor, inclusiveOfCommandId)
           id == Len(waits) + 1
       IN  /\ waits' = Append(waits,
                 [asked |-> asked, status |-> status, since |-> anchor,
                  inclusive |-> inclusiveOfCommandId,
                  immediate |-> atOnce, resolved |-> 0])
           /\ waitForCbs' = IF atOnce THEN waitForCbs
                            ELSE [waitForCbs EXCEPT ![status] = Append(@, id)]
    /\ UNCHANGED <<history, commands, defaultWaitForLocationCommandId, resolveOrder>>
    /\ UNCHANGED <<poolVars, recVars>>

(***************************************************************************)
(* TabNavigations driving the tracker                                      *)
(***************************************************************************)
\* a navigation is requested: the entry is appended, 'navigation-requested'
\* runs LocationTracker.onNavigation
onNavigationRequested(reason) ==
    /\ Len(history) < MaxNavigations
    /\ history' = Append(history,
          [navigationReason |-> reason, startCommandId |-> Len(commands),
           stateChanges |-> {}, resourceId |-> 0,
           navigationError |-> "none"])
    /\ IF reason = "newTab"
       THEN UNCHANGED <<waitForCbs, waits, resolveOrder>>
       ELSE runWaitForCbs({getTriggerForNavigationReason(reason)})
    /\ UNCHANGED <<commands, defaultWaitForLocationCommandId>>
    /\ UNCHANGED <<poolVars, recVars>>

\* one lifecycle update of the top entry: 'status-change' carries the last
\* status of the update when it is a forward step, LocationTracker's
\* onPipelineStatusChange runs against the steps recorded so far, and every
\* status of the update gets its timestamp
recordLifecycleEvent(update) ==
    /\ hasTop
    /\ LET final == update[Len(update)]
           incomingStep == getStepByStatus(final)
           lastStep == currentStep
           forward == incomingStep > lastStep
           after == [top EXCEPT !.stateChanges = @ \cup Range(update)]
       IN  /\ history' = [history EXCEPT ![Len(history)] = after]
           /\ IF forward
              THEN runWaitForCbs(StatusesToAnnounce(lastStep, incomingStep))
              ELSE UNCHANGED <<waitForCbs, waits, resolveOrder>>
    /\ UNCHANGED <<commands, defaultWaitForLocationCommandId>>
    /\ UNCHANGED <<poolVars, recVars>>

\* a request followed by n redirects and the response, as one update
RECURSIVE Redirects(_)
Redirects(n) == IF n = 0 THEN <<>> ELSE <<"HttpRedirected">> \o Redirects(n - 1)

RedirectUpdate(n) == <<"HttpRequested">> \o Redirects(n) \o <<"HttpResponded">>

LifecycleUpdates ==
    {<<st>> : st \in LifecycleStatuses} \cup {RedirectUpdate(n) : n \in 0 .. MaxRedirects}

(***************************************************************************)
(* Waits for the resource of a navigation, and the close of the session    *)
(***************************************************************************)
ResourceIds == 1 .. MaxResources

NavigationErrors == {"ERR_CONNECTION_REFUSED"}

\* waitForLocationResourceId returning the resource id whatever the entry
\* stored
waitForLocationResourceIdResult_IgnoresError(resourceId, current) ==
    [outcome |-> "returned", resourceId |-> resourceId, error |-> "none"]

\* what waitForLocationResourceId does after its await: resourceId is the
\* awaited value, current the top entry then
waitForLocationResourceIdResult(resourceId, current) ==
    IF current.navigationError # "none"
    THEN [outcome |-> "failed", resourceId |-> 0, error |-> current.navigationError]
    ELSE [outcome |-> "returned", resourceId |-> resourceId, error |-> "none"]

\* a call of waitForLocationResourceId: without a top entry there is nothing
\* to await; an entry's resourceId of 0 is the unresolved promise
waitForLocationResourceId ==
    /\ Len(resourceWaits) < MaxWaits
    /\ LET result == IF hasTop THEN waitForLocationResourceIdResult(top.resourceId, top)
                     ELSE [outcome |-> "returned", resourceId |-> 0, error |-> "none"]
           call == IF hasTop /\ top.resourceId = 0
                   THEN [nav |-> Len(history), outcome |-> "pending",
                         resourceId |-> 0, error |-> "none"]
                   ELSE [nav |-> Len(history), outcome |-> result.outcome,
                         resourceId |-> result.resourceId, error |-> result.error]
       IN  resourceWaits' = Append(resourceWaits, call)
    /\ UNCHANGED <<closeDate, cmdVars, wsVars, logVars, locVars, respVars, regVars, resVars, reqVars, cliVars, evtVars, poolVars>>

\* TabNavigations.resourceLoadedForLocation: resolves the top entry's
\* resourceId, stores the error if there is one; the calls awaiting the
\* entry's resourceId go on. Nothing happens without a top entry, or when
\* the entry is resolved and no error comes
resourceLoaded(resourceId, error) ==
    IF hasTop /\ (top.resourceId = 0 \/ error # "none")
    THEN LET loaded == [top EXCEPT
                           !.resourceId = IF @ = 0 THEN resourceId ELSE @,
                           !.navigationError = IF error # "none" THEN error ELSE @]
             result == waitForLocationResourceIdResult(loaded.resourceId, loaded)
         IN  /\ history' = [history EXCEPT ![Len(history)] = loaded]
             /\ resourceWaits' =
                   [r \in DOMAIN resourceWaits |->
                       IF resourceWaits[r].outcome = "pending"
                          /\ resourceWaits[r].nav = Len(history)
                       THEN [nav |-> resourceWaits[r].nav, outcome |-> result.outcome,
                             resourceId |-> result.resourceId, error |-> result.error]
                       ELSE resourceWaits[r]]
    ELSE UNCHANGED <<history, resourceWaits>>

\* the browser reports the resource of the navigation, or its failure
resourceLoadedForLocation(resourceId, error) ==
    /\ hasTop
    /\ top.resourceId = 0 \/ error # "none"
    /\ resourceLoaded(resourceId, error)
    /\ UNCHANGED <<commands, defaultWaitForLocationCommandId, waitForCbs, waits, resolveOrder>>
    /\ UNCHANGED <<closeDate, cmdVars, wsVars, logVars, respVars, regVars, resVars, reqVars, cliVars, evtVars, poolVars>>

\* SessionState.close, called once: the close date is set and the store is
\* flushed and closed
close ==
    /\ closeDate = "undefined"
    /\ closeDate' = "set"
    /\ dbOpen' = FALSE
    /\ UNCHANGED <<now, commandMetas, commandCalls, commandRows>>
    /\ UNCHANGED <<resourceWaits, wsVars, logVars, locVars, respVars, regVars, resVars, reqVars, cliVars, evtVars, poolVars>>

(***************************************************************************)
(* SessionState.runCommand and the command table                           *)
(***************************************************************************)
\* the session's create date, the first reading of the clock
createDate == 1

\* time passes
timePasses ==
    /\ now < MaxTime
    /\ now' = now + 1
    /\ UNCHANGED <<commandMetas, commandCalls, commandRows, dbOpen>>
    /\ UNCHANGED <<closeDate, resourceWaits, wsVars, logVars, locVars, respVars, regVars, resVars, reqVars, cliVars, evtVars, poolVars>>

\* what the store does with an insert: an open store stores the row; a
\* closed store accepts no write, it drops the row or fails the call
InsertOutcomes == IF dbOpen THEN {"stored"} ELSE {"dropped", "thrown"}

\* db.commands.insert: the row of the command id is inserted or replaced
CommandsTableInsert(rows, id, meta, outcome) ==
    IF outcome = "stored"
    THEN {r \in rows : r.id # id}
            \cup {[id |-> id, startDate |-> meta.startDate,
                   endDate |-> meta.endDate, result |-> meta.result]}
    ELSE rows

\* runCommand's finally block: endDate and result are set on the meta
Finished(meta, result) == [meta EXCEPT !.endDate = now, !.result = result]

\* the type name the command table records for a result
ResultTypeOf(result) ==
    CASE result = "undefined" -> "undefined"
      [] result \in {"FnError", "StoreError"} -> "Error"
      [] OTHER -> "Object"

\* the command table marks the meta it stores with the type of its result
Typed(meta, outcome) ==
    IF outcome = "stored" THEN [meta EXCEPT !.resultType = ResultTypeOf(meta.result)]
    ELSE meta

\* runCommand up to its await: the meta is pushed, the start row inserted
\* and commandFn called; an insert that throws is caught, rethrown and
\* followed by the finally block
runCommandStart(name) ==
    /\ Len(commands) < MaxCommands
    /\ defaultWaitForLocationCommandId' =
          willRunCommand(name, Len(commands) + 1, commands,
                         defaultWaitForLocationCommandId)
    /\ commands' = Append(commands, name)
    /\ \E first \in InsertOutcomes, second \in InsertOutcomes :
          LET id == Len(commands) + 1
              started == [startDate |-> now, endDate |-> 0,
                          result |-> "undefined", resultType |-> "undefined"]
              failed == Finished(started, "StoreError")
          IN  IF first = "thrown"
              THEN /\ commandMetas' = Append(commandMetas, failed)
                   /\ commandRows' = CommandsTableInsert(commandRows, id, failed, second)
                   /\ commandCalls' = Append(commandCalls,
                          [commandFn |-> "notRun", outcome |-> "StoreError"])
              ELSE /\ second = first
                   /\ commandMetas' = Append(commandMetas, started)
                   /\ commandRows' = CommandsTableInsert(commandRows, id, started, first)
                   /\ commandCalls' = Append(commandCalls,
                          [commandFn |-> "running", outcome |-> "pending"])
    /\ UNCHANGED <<now, dbOpen, closeDate, resourceWaits>>
    /\ UNCHANGED <<history, waitForCbs, waits, resolveOrder, wsVars, logVars, respVars, regVars, resVars, reqVars, cliVars, evtVars, poolVars>>

\* commandFn settles with a value or throws, and runCommand goes on: the
\* finally block runs the second insert, whose exception would replace the
\* outcome of the try block
runCommandFinish(id, settled) ==
    /\ id \in DOMAIN commandCalls
    /\ commandCalls[id].commandFn = "running"
    /\ \E second \in InsertOutcomes :
          LET finished == Typed(Finished(commandMetas[id], settled), second)
          IN  /\ commandMetas' = [commandMetas EXCEPT ![id] = finished]
              /\ commandRows' = CommandsTableInsert(commandRows, id, finished, second)
              /\ commandCalls' = [commandCalls EXCEPT ![id] =
                     [commandFn |-> settled,
                      outcome |-> IF second = "thrown" THEN "StoreError" ELSE settled]]
    /\ UNCHANGED <<now, dbOpen, closeDate, resourceWaits, wsVars, logVars, locVars, respVars, regVars, resVars, reqVars, cliVars, evtVars, poolVars>>

(***************************************************************************)
(* Websocket messages                                                      *)
(***************************************************************************)
BrowserRequestIds == {"request1", "request2"}

Listeners == 1 .. MaxListeners

\* recorded for a captureWebsocketMessage call that ended by throwing
Thrown == -1

\* resourceEventToMeta, as far as the redirect chains go: the resource id is
\* pushed on the list of its browser request id
resourceEventToMeta(browserRequestId, resourceId) ==
    /\ Len(browserRequestIdToResources["request1"])
          + Len(browserRequestIdToResources["request2"]) < MaxResources
    /\ browserRequestIdToResources' =
          [browserRequestIdToResources EXCEPT ![browserRequestId] = Append(@, resourceId)]
    /\ UNCHANGED <<websocketMessages, websocketListeners, websocketMessageIdCounter,
                   websocketRows, delivered, captureReturns, listens>>
    /\ UNCHANGED <<closeDate, resourceWaits, cmdVars, logVars, locVars, respVars, regVars, resVars, reqVars, cliVars, evtVars, poolVars>>

\* the stored messages of a resource id, whatever their resource
MessagesOf_All(resourceId) == websocketMessages

\* the stored messages onWebsocketMessages pushes to a new listener
MessagesOf(resourceId) ==
    LET IsOfResource(message) == message.resourceId = resourceId
    IN  SelectSeq(websocketMessages, IsOfResource)

\* the listener function is called with each message of the sequence
Calls_(messages, replayed) ==
    [i \in 1 .. Len(messages) |->
        [messageId |-> messages[i].messageId, resourceId |-> messages[i].resourceId,
         replayed |-> replayed]]

onWebsocketMessagesUpTo(resourceId, listenerFn, limit) ==
    /\ listens < limit
    /\ listens' = listens + 1
    /\ websocketListeners' = [websocketListeners EXCEPT ![resourceId] = Append(@, listenerFn)]
    /\ delivered' = [delivered EXCEPT ![listenerFn] =
                        @ \o Calls_(MessagesOf(resourceId), TRUE)]
    /\ UNCHANGED <<browserRequestIdToResources, websocketMessages,
                   websocketMessageIdCounter, websocketRows, captureReturns>>
    /\ UNCHANGED <<closeDate, resourceWaits, cmdVars, logVars, locVars, respVars, regVars, resVars, reqVars, cliVars, evtVars, poolVars>>

onWebsocketMessages(resourceId, listenerFn) ==
    onWebsocketMessagesUpTo(resourceId, listenerFn, MaxListeners)

\* listeners.indexOf(listenerFn), 0 when absent
IndexOf(listeners, listenerFn) ==
    IF listenerFn \in Range(listeners)
    THEN CHOOSE i \in 1 .. Len(listeners) :
            /\ listeners[i] = listenerFn
            /\ \A j \in 1 .. (i - 1) : listeners[j] # listenerFn
    ELSE 0

stopWebsocketMessages(resourceId, listenerFn) ==
    /\ IndexOf(websocketListeners[resourceId], listenerFn) > 0
    /\ LET listeners == websocketListeners[resourceId]
           idx == IndexOf(listeners, listenerFn)
       IN  websocketListeners' = [websocketListeners EXCEPT ![resourceId] =
              SubSeq(listeners, 1, idx - 1) \o SubSeq(listeners, idx + 1, Len(listeners))]
    /\ UNCHANGED <<browserRequestIdToResources, websocketMessages,
                   websocketMessageIdCounter, websocketRows, delivered,
                   captureReturns, listens>>
    /\ UNCHANGED <<closeDate, resourceWaits, cmdVars, logVars, locVars, respVars, regVars, resVars, reqVars, cliVars, evtVars, poolVars>>

\* a log entry of this session's logger
LogEntry(level, action) ==
    [sessionId |-> "this", level |-> level, action |-> action, timestamp |-> now]

\* the entries onLogEvent takes for the session: its own, and those that
\* carry no session id
IsForSession(entry, sessionId) ==
    entry.sessionId = sessionId \/ entry.sessionId = "none"

\* onLogEvent: an error entry of this session moves lastErrorTime, and the
\* entry is inserted in the session logs
onLogEvent(entry) ==
    IF IsForSession(entry, "this")
    THEN /\ lastErrorTime' = IF entry.level = "error" THEN entry.timestamp
                             ELSE lastErrorTime
         /\ sessionLogs' = IF dbOpen THEN Append(sessionLogs, entry) ELSE sessionLogs
    ELSE UNCHANGED <<lastErrorTime, sessionLogs>>

\* the message id taken without advancing the counter
NextMessageId_NotAdvanced(counter) == counter

\* (this.websocketMessageIdCounter += 1)
NextMessageId(counter) == counter + 1

\* the first entry of the chain instead of the last
finalRedirect_First(resources) == resources[1]

\* const finalRedirect = resources[resources.length - 1]
finalRedirect(resources) == resources[Len(resources)]

\* every listener of the list is called with the message, in list order
RECURSIVE FanOut(_, _, _)
FanOut(listeners, log, call) ==
    IF listeners = <<>> THEN log
    ELSE FanOut(Tail(listeners),
                [log EXCEPT ![Head(listeners)] = Append(@, call)], call)

\* captureWebsocketMessage taking the message id before it looks the
\* request id up
captureWebsocketMessage_CountsFirst(browserRequestId) ==
    /\ Len(captureReturns) < MaxMessages
    /\ LET resources == browserRequestIdToResources[browserRequestId]
           messageId == NextMessageId(websocketMessageIdCounter)
       IN  /\ websocketMessageIdCounter' = messageId
           /\ IF resources = <<>>
              THEN /\ onLogEvent(LogEntry("error",
                                       "CaptureWebsocketMessageError.UnregisteredResource"))
                   /\ captureReturns' = Append(captureReturns, 0)
                   /\ UNCHANGED <<websocketMessages, websocketRows, delivered>>
              ELSE LET resourceMessage ==
                           [resourceId |-> resources[Len(resources)],
                            messageId |-> messageId]
                   IN  /\ websocketMessages' = Append(websocketMessages, resourceMessage)
                       /\ UNCHANGED logVars
                       /\ \E outcome \in InsertOutcomes :
                            /\ websocketRows' =
                                  IF outcome = "stored"
                                  THEN Append(websocketRows,
                                         [commandId |-> Len(commands),
                                          message |-> resourceMessage])
                                  ELSE websocketRows
                            /\ IF outcome = "thrown"
                               THEN /\ captureReturns' = Append(captureReturns, Thrown)
                                    /\ UNCHANGED delivered
                               ELSE /\ captureReturns' = Append(captureReturns, messageId)
                                    /\ delivered' =
                                          FanOut(websocketListeners[resourceMessage.resourceId],
                                                 delivered,
                                                 [messageId |-> messageId,
                                                  resourceId |-> resourceMessage.resourceId,
                                                  replayed |-> FALSE])
    /\ UNCHANGED <<browserRequestIdToResources, websocketListeners, listens>>
    /\ UNCHANGED <<closeDate, resourceWaits, cmdVars, locVars, respVars, regVars, resVars, reqVars, cliVars, evtVars, poolVars>>

captureWebsocketMessage(browserRequestId) ==
    /\ Len(captureReturns) < MaxMessages
    /\ LET resources == browserRequestIdToResources[browserRequestId]
       IN  IF resources = <<>>
           THEN /\ onLogEvent(LogEntry("error",
                                    "CaptureWebsocketMessageError.UnregisteredResource"))
                /\ captureReturns' = Append(captureReturns, 0)
                /\ UNCHANGED <<websocketMessages, websocketMessageIdCounter,
                               websocketRows, delivered>>
           ELSE LET messageId == NextMessageId(websocketMessageIdCounter)
                    resourceMessage ==
                        [resourceId |-> finalRedirect(resources),
                         messageId |-> messageId]
                IN  /\ websocketMessageIdCounter' = messageId
                    /\ websocketMessages' = Append(websocketMessages, resourceMessage)
                    /\ UNCHANGED logVars
                    /\ \E outcome \in InsertOutcomes :
                         /\ websocketRows' =
                               IF outcome = "stored"
                               THEN Append(websocketRows,
                                      [commandId |-> Len(commands),
                                       message |-> resourceMessage])
                               ELSE websocketRows
                         /\ IF outcome = "thrown"
                            THEN /\ captureReturns' = Append(captureReturns, Thrown)
                                 /\ UNCHANGED delivered
                            ELSE /\ captureReturns' = Append(captureReturns, messageId)
                                 /\ delivered' =
                                       FanOut(websocketListeners[resourceMessage.resourceId],
                                              delivered,
                                              [messageId |-> messageId,
                                               resourceId |-> resourceMessage.resourceId,
                                               replayed |-> FALSE])
    /\ UNCHANGED <<browserRequestIdToResources, websocketListeners, listens>>
    /\ UNCHANGED <<closeDate, resourceWaits, cmdVars, locVars, respVars, regVars, resVars, reqVars, cliVars, evtVars, poolVars>>

(***************************************************************************)
(* SessionState.checkForResponsive                                         *)
(***************************************************************************)
TabIds == {"tab1", "tab2"}

\* a tab without a navigation
NoTop == [initiatedTime |-> 0, allContentLoaded |-> 0]

\* before the first call
NotCalled == [called |-> FALSE, hasRecentErrors |-> FALSE, lastSuccessDate |-> 0,
              lastActivityDate |-> 0, closeDate |-> "undefined"]

\* the orders Object.values(navigationsByTabId) can have
TabOrders == {order \in [1 .. Cardinality(TabIds) -> TabIds] : Range(order) = TabIds}

\* allContentLoaded ?? navigation.top?.initiatedTime
lastPageTime(navigation) ==
    IF navigation.allContentLoaded # 0 THEN navigation.allContentLoaded
    ELSE navigation.initiatedTime

\* the loop over the commands, for one tab
RECURSIVE overCommands(_, _, _)
overCommands(metas, allContentLoaded, lastSuccessDate) ==
    IF metas = <<>> THEN lastSuccessDate
    ELSE LET command == Head(metas)
             counts == /\ command.endDate # 0
                       /\ allContentLoaded # 0
                       /\ command.endDate > lastSuccessDate
                       /\ command.resultType # "Error"
         IN  overCommands(Tail(metas), allContentLoaded,
                          IF counts THEN command.endDate ELSE lastSuccessDate)

\* the loop over the tabs
RECURSIVE overNavigations(_, _)
overNavigations(order, lastSuccessDate) ==
    IF order = <<>> THEN lastSuccessDate
    ELSE LET navigation == navigationsByTabId[Head(order)]
             pageTime == lastPageTime(navigation)
             afterPage == IF pageTime # 0 /\ pageTime > lastSuccessDate
                          THEN pageTime ELSE lastSuccessDate
         IN  overNavigations(Tail(order),
                             overCommands(commandMetas, navigation.allContentLoaded, afterPage))

checkForResponsive(order) ==
    /\ LET lastSuccessDate == overNavigations(order, createDate)
           lastCommand == commandMetas[Len(commandMetas)]
           commandDate == IF lastCommand.endDate # 0 THEN lastCommand.endDate
                          ELSE lastCommand.startDate
       IN  responsive' =
              [called |-> TRUE,
               hasRecentErrors |-> lastErrorTime # 0 /\ lastErrorTime >= lastSuccessDate,
               lastSuccessDate |-> lastSuccessDate,
               lastActivityDate |->
                   IF commandMetas # <<>> /\ commandDate > lastSuccessDate
                   THEN commandDate ELSE lastSuccessDate,
               closeDate |-> closeDate]
    /\ UNCHANGED <<navigationsByTabId, closeDate, resourceWaits, cmdVars, wsVars,
                   logVars, regVars, resVars, reqVars, cliVars, evtVars, locVars, poolVars>>

(***************************************************************************)
(* Captured resources and the navigation they load                         *)
(***************************************************************************)
\* the tabs registerTab was called for: their navigations are `history`
RegisteredTabs == {"tab1"}

\* the url the navigations of the tab request, and another one
NavigationUrl == "https://page"
Urls == {NavigationUrl, "https://other"}

Methods == {"GET", "OPTIONS"}

\* this.navigationsByTabId[tabId]?.currentUrl
currentUrl(tabId) ==
    IF tabId \in RegisteredTabs /\ hasTop THEN NavigationUrl ELSE "undefined"

\* the condition with the request method left out
IsLocationResource_AnyMethod(tabId, url, method) == url = currentUrl(tabId)

\* resource.url === navigations?.currentUrl && request.method !== 'OPTIONS'
IsLocationResource(tabId, url, method) ==
    url = currentUrl(tabId) /\ method # "OPTIONS"

\* the part of captureResource and captureResourceError that follows
\* resourceEventToMeta: the row is inserted, the navigation notified when
\* the resource is the one it loads, and a response kept in this.resources
captured(tabId, browserRequestId, url, method, notifies, error, isResponse) ==
    LET id == resourceCaptures + 1
        resource == [id |-> id, tabId |-> tabId, url |-> url]
    IN  /\ resourceCaptures < MaxResources
        /\ resourceCaptures' = id
        /\ browserRequestIdToResources' =
              [browserRequestIdToResources EXCEPT
                  ![browserRequestId] = Append(@, id)]
        /\ \E outcome \in InsertOutcomes :
              /\ resourceRows' = IF outcome = "stored"
                                 THEN Append(resourceRows,
                                        [id |-> id, tabId |-> tabId, url |-> url,
                                         error |-> error])
                                 ELSE resourceRows
              /\ IF outcome = "thrown"
                 THEN UNCHANGED <<history, resourceWaits, notifications, sessionResources>>
                 ELSE /\ IF notifies /\ IsLocationResource(tabId, url, method)
                         THEN /\ resourceLoaded(id, error)
                              /\ notifications' = Append(notifications,
                                    [tabId |-> tabId, resourceId |-> id, error |-> error])
                         ELSE UNCHANGED <<history, resourceWaits, notifications>>
                      /\ sessionResources' =
                            IF isResponse THEN Append(sessionResources, resource)
                            ELSE sessionResources
        /\ UNCHANGED <<commands, defaultWaitForLocationCommandId, waitForCbs, waits, resolveOrder>>
        /\ UNCHANGED <<websocketMessages, websocketListeners, websocketMessageIdCounter,
                       websocketRows, delivered, captureReturns, listens>>
        /\ UNCHANGED <<closeDate, cmdVars, logVars, respVars, regVars, reqVars, cliVars, evtVars, poolVars>>

captureResourceError(tabId, browserRequestId, url, method, error) ==
    captured(tabId, browserRequestId, url, method, TRUE, error, FALSE)

captureResource(tabId, browserRequestId, url, method, isResponse) ==
    captured(tabId, browserRequestId, url, method, isResponse, "none", isResponse)

(***************************************************************************)
(* CoreServerConnection.handleRequest                                      *)
(***************************************************************************)
\* command names a payload can carry: an operation of the connection, other
\* members of the connection object (a method that is no operation of the
\* protocol, a field), a method of the tab, and a name nothing has
ConnectionOperations == {"connect"}
ConnectionMembers == ConnectionOperations \cup {"handleRequest", "isClosing"}
ConnectionFunctions == ConnectionMembers \ {"isClosing"}
TabMethods == {"goto"}
RequestCommands == ConnectionMembers \cup TabMethods \cup {"bogus"}

\* command in this
InThis(command) == command \in ConnectionMembers

\* the response payload handleRequest emits
Response(messageId, data, names, isError) ==
    [responseId |-> messageId, commandId |-> 0, data |-> data, names |-> names,
     isError |-> isError]

\* the not-available branch: no command runs, the error names the command
NotAvailable(messageId, command) ==
    Response(messageId, "Command not available on tab", command, TRUE)

\* the catch block: the error thrown becomes the payload
Caught(messageId, message) == Response(messageId, message, "none", TRUE)

\* what the synchronous part of a dispatch emits at once for a command that
\* is not awaited: a member that is no function throws a TypeError, a tab
\* that is not found throws, a name the tab has no function for is refused
RefusedAtOnce(messageId, command, tabFound) ==
    IF InThis(command)
    THEN Caught(messageId, "this[command] is not a function")
    ELSE IF ~tabFound THEN Caught(messageId, "tab not found")
    ELSE NotAvailable(messageId, command)

\* the commands whose call is awaited
IsAwaited(command, tabFound) ==
    \/ command \in ConnectionFunctions
    \/ ~InThis(command) /\ tabFound /\ command \in TabMethods

\* handleRequest up to its await. The payload of a nested handleRequest is
\* the first argument: it is handled the same way, with its own messageId
handleRequest(command, tabFound, nested) ==
    /\ Len(requests) < MaxRequests
    /\ LET messageId == Len(requests) + 1
       IN  /\ requests' = Append(requests,
                 [command |-> command,
                  state |-> IF IsAwaited(command, tabFound) THEN "awaiting"
                            ELSE "refused"])
           /\ emitted' =
                 IF ~IsAwaited(command, tabFound)
                 THEN Append(emitted, RefusedAtOnce(messageId, command, tabFound))
                 ELSE IF command = "handleRequest"
                 THEN Append(emitted,
                             RefusedAtOnce(nested.messageId, nested.command, tabFound))
                 ELSE emitted
           /\ IF command = "connect"
              THEN /\ \E persistent \in BOOLEAN : isPersistent' = persistent
                   /\ isClosing' = FALSE
              ELSE UNCHANGED <<isPersistent, isClosing>>
    /\ UNCHANGED <<callState, session, activeSessionCount, waitingForAvailability,
                   sessionIds, autoShutdownTimer, disconnectAwaits, closeEvents,
                   queued>>
    /\ UNCHANGED <<closeDate, resourceWaits, cmdVars, wsVars, logVars, respVars,
                   regVars, resVars, cliVars, evtVars, locVars>>

\* the awaited command returned or threw: the response is emitted
handleRequestRespond(messageId, outcome) ==
    /\ messageId \in DOMAIN requests
    /\ requests[messageId].state = "awaiting"
    /\ requests' = [requests EXCEPT ![messageId].state =
                         IF outcome = "thrown" THEN "threw" ELSE "returned"]
    /\ emitted' = Append(emitted,
          IF outcome = "thrown" THEN Caught(messageId, "error of the command")
          ELSE Response(messageId, "value", "none", FALSE))
    /\ UNCHANGED <<closeDate, resourceWaits, cmdVars, wsVars, logVars, respVars,
                   regVars, resVars, cliVars, evtVars, locVars, poolVars>>

\* handleRequest of the command createSession, up to its await: the call
\* this[command](...args) is createSession; the call is the one numbered as
\* the message
handleRequestCreateSession(messageId) ==
    /\ Len(requests) < MaxRequests
    /\ messageId = Len(requests) + 1
    /\ messageId \in Calls
    /\ createSessionCall(messageId)
    /\ requests' = Append(requests, [command |-> "createSession", state |-> "awaiting"])
    /\ UNCHANGED emitted
    /\ UNCHANGED <<closeDate, resourceWaits, cmdVars, wsVars, logVars, respVars,
                   regVars, resVars, cliVars, evtVars, locVars>>

\* the awaited createSession settled: its error goes through the catch block,
\* its session meta is the data of the response
createSessionResponds(messageId) ==
    /\ messageId \in DOMAIN requests
    /\ requests[messageId].command = "createSession"
    /\ requests[messageId].state = "awaiting"
    /\ callState[messageId] \in {"failed", "done"}
    /\ requests' = [requests EXCEPT ![messageId].state =
                         IF callState[messageId] = "failed" THEN "threw"
                         ELSE "returned"]
    /\ emitted' = Append(emitted,
          IF callState[messageId] = "failed"
          THEN Caught(messageId, "Connection closed")
          ELSE Response(messageId, "sessionMeta", "none", FALSE))
    /\ UNCHANGED <<closeDate, resourceWaits, cmdVars, wsVars, logVars, respVars,
                   regVars, resVars, cliVars, evtVars, locVars, poolVars>>

(***************************************************************************)
(* Client: Agent, SessionConnection and the handler dispatching agents     *)
(***************************************************************************)
\* the client leaves the core's state and the script instance alone
ClientFrame ==
    UNCHANGED <<closeDate, resourceWaits, cmdVars, wsVars, logVars, respVars,
                regVars, resVars, reqVars, evtVars, locVars, poolVars,
                scriptInstance>>

\* a command sent to the core; agent 0 stands for the connection itself
Sent(command, agent) == [command |-> command, agent |-> agent]

\* the connection sends connect ahead of its first command
WithConnect(sending) ==
    IF \E i \in DOMAIN outgoing : outgoing[i].command = "connect"
    THEN sending
    ELSE <<Sent("connect", 0)>> \o sending

\* SessionConnection.connectSession creating a session on every call
connectSessionSends_EveryCall(a) == WithConnect(<<Sent("createSession", a)>>)

\* SessionConnection.connectSession: what it sends -- nothing once connected
connectSessionSends(a) ==
    IF agents[a].hasConnected THEN <<>>
    ELSE WithConnect(<<Sent("createSession", a)>>)

\* the agent after connectSession: _coreSession is the pending promise
Connected(a) ==
    IF agents[a].hasConnected THEN agents[a]
    ELSE [agents[a] EXCEPT !.hasConnected = TRUE, !.coreSession = "pending"]

\* the getters coreSession and activeTab, as the callback of a dispatch uses
\* them: both go through connectSession
connectSession(a) ==
    /\ agents[a].dispatch = "running"
    /\ outgoing' = outgoing \o connectSessionSends(a)
    /\ agents' = [agents EXCEPT ![a] = Connected(a)]
    /\ UNCHANGED handlerClosed
    /\ ClientFrame

\* the core answered createSession: the coreSession promise resolves
createSessionResolved(a) ==
    /\ agents[a].coreSession = "pending"
    /\ agents' = [agents EXCEPT ![a].coreSession = "resolved"]
    /\ UNCHANGED <<outgoing, handlerClosed>>
    /\ ClientFrame

\* Agent.close: nothing when already closing; else connection.close()
\* awaits coreSession, which connects an agent that never did
AgentCloseSends(a) ==
    IF agents[a].isClosing THEN <<>> ELSE connectSessionSends(a)

AgentClosing(a) ==
    IF agents[a].isClosing THEN agents[a]
    ELSE [Connected(a) EXCEPT !.isClosing = TRUE]

\* the callback of a dispatch closes its agent itself
AgentClose(a) ==
    /\ agents[a].dispatch = "running"
    /\ outgoing' = outgoing \o AgentCloseSends(a)
    /\ agents' = [agents EXCEPT ![a] = AgentClosing(a)]
    /\ UNCHANGED handlerClosed
    /\ ClientFrame

\* SessionConnection.close past its await: session.close() sends closeSession
SessionConnectionClose(a) ==
    /\ agents[a].isClosing
    /\ agents[a].coreSession = "resolved"
    /\ ~agents[a].closeSent
    /\ outgoing' = outgoing \o <<Sent("closeSession", a)>>
    /\ agents' = [agents EXCEPT ![a].closeSent = TRUE]
    /\ UNCHANGED handlerClosed
    /\ ClientFrame

\* handler.dispatchAgent(runFn): a new agent runs the callback
dispatchAgent(a) ==
    /\ ~handlerClosed
    /\ agents[a].dispatch = "none"
    /\ \A b \in Agents : b < a => agents[b].dispatch # "none"
    /\ agents' = [agents EXCEPT ![a].dispatch = "running"]
    /\ UNCHANGED <<outgoing, handlerClosed>>
    /\ ClientFrame

\* the callback returned: the handler closes the agent
dispatchSettled(a) ==
    /\ agents[a].dispatch = "running"
    /\ outgoing' = outgoing \o AgentCloseSends(a)
    /\ agents' = [agents EXCEPT ![a] = [AgentClosing(a) EXCEPT !.dispatch = "settled"]]
    /\ UNCHANGED handlerClosed
    /\ ClientFrame

\* handler.close(), after waitForAllDispatches: the connection disconnects
\* once the sessions of the dispatched agents are closed
HandlerClose ==
    /\ ~handlerClosed
    /\ \A a \in Agents :
          agents[a].dispatch = "none" \/ (agents[a].dispatch = "settled" /\ agents[a].closeSent)
    /\ handlerClosed' = TRUE
    /\ outgoing' = outgoing \o WithConnect(<<Sent("disconnect", 0)>>)
    /\ UNCHANGED agents
    /\ ClientFrame

(***************************************************************************)
(* ScriptInstance.generateSessionName                                      *)
(***************************************************************************)
\* a session name is a base and the counters appended to it with '-':
\* 'x-2' is the base 'x' with <<2>>, as a requested and as a generated name
SessionName(base, suffix) == [base |-> base, suffix |-> suffix]

\* the names an agent is constructed with; the base '' is no name at all
RequestedNames ==
    {SessionName(base, <<>>) : base \in {"", "x", "X", "y"}}
        \cup {SessionName(base, <<2>>) : base \in {"x", "y"}}

\* cleanupSessionName on the names modelled: toLowerCase
cleanupSessionName(name) == [name EXCEPT !.base = IF @ = "X" THEN "x" ELSE @]

\* this.sessionNameCountByName[name], 0 for undefined
CountByName(counts, name) == IF name \in DOMAIN counts THEN counts[name] ELSE 0

\* this.sessionNameCountByName[name] = count
SetCount(counts, name, count) ==
    [n \in DOMAIN counts \cup {name} |-> IF n = name THEN count ELSE counts[n]]

\* `${name}-${countPlusOne}`
Suffixed(name, countPlusOne) == [name EXCEPT !.suffix = Append(@, countPlusOne)]

\* generateSessionName(name, shouldCleanName): the counts it leaves and the
\* name it returns
RECURSIVE generateSessionName(_, _, _)
generateSessionName(counts, requestedName, shouldCleanName) ==
    LET cleaned == IF requestedName.base # "" /\ shouldCleanName
                   THEN cleanupSessionName(requestedName) ELSE requestedName
        name == IF cleaned.base = "" THEN SessionName("default-session", <<>>)
                ELSE cleaned
        initialised == SetCount(counts, name, CountByName(counts, name))
        countPlusOne == initialised[name] + 1
        newName == Suffixed(name, countPlusOne)
    IN  IF countPlusOne > 1
        THEN IF CountByName(initialised, newName) # 0
             THEN generateSessionName(initialised, newName, FALSE)
             ELSE [sessionNameCountByName |-> SetCount(initialised, name, countPlusOne),
                   name |-> newName]
        ELSE [sessionNameCountByName |-> SetCount(initialised, name, countPlusOne),
              name |-> name]

\* new Agent(options): scriptInstance.generateSessionName(options.name)
newAgent(requestedName) ==
    /\ Len(scriptInstance.names) < MaxNames
    /\ LET generated == generateSessionName(scriptInstance.sessionNameCountByName,
                                            requestedName, TRUE)
       IN  scriptInstance' =
              [sessionNameCountByName |-> generated.sessionNameCountByName,
               requested |-> Append(scriptInstance.requested, requestedName),
               names |-> Append(scriptInstance.names, generated.name)]
    /\ UNCHANGED <<agents, outgoing, handlerClosed>>
    /\ UNCHANGED <<closeDate, resourceWaits, cmdVars, wsVars, logVars, respVars,
                   regVars, resVars, reqVars, evtVars, locVars, poolVars>>

(***************************************************************************)
(* SessionState.onPageEvents                                               *)
(***************************************************************************)
\* the command id of an event recorded before the page knew the command
Placeholder == -1

\* domChanges.reduce(max, -1): the greatest command id among the DOM changes
MaxCommandIdOf(domChanges) ==
    IF domChanges = <<>> THEN Placeholder
    ELSE CHOOSE c \in {domChanges[i].commandId : i \in DOMAIN domChanges} :
            \A i \in DOMAIN domChanges : domChanges[i].commandId <= c

\* the entries of the history that reached HttpResponded
RespondedNavigations ==
    {i \in DOMAIN history : "HttpResponded" \in history[i].stateChanges}

\* the scan taking the first entry that responded
ScanHistory_Forward ==
    CHOOSE i \in RespondedNavigations : \A j \in RespondedNavigations : i <= j

\* the scan from the end of the history: the last entry that responded
ScanHistory ==
    CHOOSE i \in RespondedNavigations : \A j \in RespondedNavigations : j <= i

\* startCommandId as onPageEvents computes it
pageStartCommandId(domChanges) ==
    IF RespondedNavigations = {} THEN MaxCommandIdOf(domChanges)
    ELSE history[ScanHistory].startCommandId

\* one batch: placeholders take startCommandId, the events are inserted in order
EventRowsOf(tabId, batch, startCommandId) ==
    [i \in DOMAIN batch |->
        [tabId |-> tabId,
         commandId |-> IF batch[i].commandId = Placeholder THEN startCommandId
                       ELSE batch[i].commandId,
         event |-> batch[i].event]]

onPageEvents(tabId) ==
    /\ pageEvents.pending
    /\ LET startCommandId == pageStartCommandId(pageEvents.domChanges)
       IN  /\ domChangeRows' =
                 domChangeRows \o EventRowsOf(tabId, pageEvents.domChanges, startCommandId)
           /\ mouseEventRows' =
                 mouseEventRows \o EventRowsOf(tabId, pageEvents.mouseEvents, startCommandId)
           /\ focusEventRows' =
                 focusEventRows \o EventRowsOf(tabId, pageEvents.focusEvents, startCommandId)
           /\ scrollEventRows' =
                 scrollEventRows \o EventRowsOf(tabId, pageEvents.scrollEvents, startCommandId)
    /\ pageEvents' = [pageEvents EXCEPT !.pending = FALSE]
    /\ UNCHANGED <<closeDate, resourceWaits, cmdVars, wsVars, logVars, respVars,
                   regVars, resVars, reqVars, cliVars, locVars, poolVars>>

(***************************************************************************)
(* The sessions of the process: SessionState.registry and LogEvents        *)
(***************************************************************************)
SessionIds == {"session1", "session2"}

\* new SessionState(...): the session registers itself, opens its store and
\* subscribes to the log stream
SessionStateConstructor(sessionId) ==
    /\ sessionLife[sessionId] = "none"
    /\ sessionLife' = [sessionLife EXCEPT ![sessionId] = "open"]
    /\ registry' = registry \cup {sessionId}
    /\ logSubscribers' = logSubscribers \cup {sessionId}
    /\ UNCHANGED <<lastErrorTimeOf, sessionLogsOf, logEntries>>
    /\ UNCHANGED <<closeDate, resourceWaits, cmdVars, wsVars, logVars, respVars,
                   resVars, reqVars, cliVars, evtVars, locVars, poolVars>>

\* SessionState.registry.delete leaving no entry at all
registryDelete_Clear(sessionId) == {}

\* SessionState.registry.delete(this.sessionId)
registryDelete(sessionId) == registry \ {sessionId}

\* SessionState.close of one of the sessions, called once
SessionStateClose(sessionId) ==
    /\ sessionLife[sessionId] = "open"
    /\ sessionLife' = [sessionLife EXCEPT ![sessionId] = "closed"]
    /\ logSubscribers' = logSubscribers \ {sessionId}
    /\ registry' = registryDelete(sessionId)
    /\ UNCHANGED <<lastErrorTimeOf, sessionLogsOf, logEntries>>
    /\ UNCHANGED <<closeDate, resourceWaits, cmdVars, wsVars, logVars, respVars,
                   resVars, reqVars, cliVars, evtVars, locVars, poolVars>>

\* a log entry is emitted: the onLogEvent of every subscribed session runs
LogEventsBroadcast(sessionId, level) ==
    /\ Len(logEntries) < MaxLogEntries
    /\ LET entry == [sessionId |-> sessionId, level |-> level,
                     action |-> "log", timestamp |-> createDate + Len(logEntries)]
           takers == {s \in logSubscribers : IsForSession(entry, s)}
       IN  /\ logEntries' = Append(logEntries, entry)
           /\ lastErrorTimeOf' =
                 [s \in SessionIds |->
                     IF s \in takers /\ entry.level = "error" THEN entry.timestamp
                     ELSE lastErrorTimeOf[s]]
           /\ sessionLogsOf' =
                 [s \in SessionIds |->
                     IF s \in takers THEN Append(sessionLogsOf[s], entry)
                     ELSE sessionLogsOf[s]]
    /\ UNCHANGED <<registry, sessionLife, logSubscribers>>
    /\ UNCHANGED <<closeDate, resourceWaits, cmdVars, wsVars, logVars, respVars,
                   resVars, reqVars, cliVars, evtVars, locVars, poolVars>>

LocInit ==
    /\ history = <<>>
    /\ commands = <<>>
    /\ defaultWaitForLocationCommandId = 0
    /\ waitForCbs = [st \in LocationStatuses |-> <<>>]
    /\ waits = <<>>
    /\ resolveOrder = <<>>

PoolInit ==
    /\ callState = [c \in Calls |-> "idle"]
    /\ session = [c \in Calls |-> "none"]
    /\ activeSessionCount = 0
    /\ waitingForAvailability = <<>>
    /\ isClosing = FALSE
    /\ isPersistent = FALSE
    /\ sessionIds = {}
    /\ autoShutdownTimer = FALSE
    /\ disconnectAwaits = <<>>
    /\ closeEvents = 0
    /\ queued = {}

\* no page events have arrived
EventsInit ==
    /\ pageEvents = [pending |-> FALSE, domChanges |-> <<>>, mouseEvents |-> <<>>,
                     focusEvents |-> <<>>, scrollEvents |-> <<>>]
    /\ domChangeRows = <<>>
    /\ mouseEventRows = <<>>
    /\ focusEventRows = <<>>
    /\ scrollEventRows = <<>>

\* the recorder, the connection and the client after construction
RecorderInit ==
    /\ now = createDate
    /\ commandMetas = <<>>
    /\ commandCalls = <<>>
    /\ commandRows = {}
    /\ dbOpen = TRUE
    /\ browserRequestIdToResources = [b \in BrowserRequestIds |-> <<>>]
    /\ websocketMessages = <<>>
    /\ websocketListeners = [r \in ResourceIds |-> <<>>]
    /\ websocketMessageIdCounter = 0
    /\ websocketRows = <<>>
    /\ delivered = [l \in Listeners |-> <<>>]
    /\ captureReturns = <<>>
    /\ listens = 0
    /\ lastErrorTime = 0
    /\ sessionLogs = <<>>
    /\ navigationsByTabId = [t \in TabIds |-> NoTop]
    /\ responsive = NotCalled
    /\ registry = {}
    /\ sessionLife = [s \in SessionIds |-> "none"]
    /\ logSubscribers = {}
    /\ lastErrorTimeOf = [s \in SessionIds |-> 0]
    /\ sessionLogsOf = [s \in SessionIds |-> <<>>]
    /\ logEntries = <<>>
    /\ sessionResources = <<>>
    /\ resourceRows = <<>>
    /\ notifications = <<>>
    /\ resourceCaptures = 0
    /\ requests = <<>>
    /\ emitted = <<>>
    /\ agents = [a \in Agents |->
                    [dispatch |-> "none", hasConnected |-> FALSE, isClosing |-> FALSE,
                     coreSession |-> "none", closeSent |-> FALSE]]
    /\ outgoing = <<>>
    /\ handlerClosed = FALSE
    /\ scriptInstance = [sessionNameCountByName |-> <<>>, requested |-> <<>>,
                         names |-> <<>>]

RecInit ==
    /\ closeDate = "undefined"
    /\ resourceWaits = <<>>
    /\ RecorderInit
    /\ EventsInit

Init == PoolInit /\ LocInit /\ RecInit

PoolNext ==
    \/ \E c \in Calls : createSession(c)
    \/ \E c \in Calls : createSessionRegister(c)
    \/ \E c \in Calls : createSessionReturn(c)
    \/ \E s \in Calls : closeSession(s)
    \/ \E s \in Calls : sessionClosed(s)
    \/ \E p \in BOOLEAN : connect(p)
    \/ disconnect
    \/ autoShutdownTimeout
    \/ disconnectFinish

PoolSpec == Init /\ [][PoolNext]_vars

CommandNames == {"goto", "waitForLocation", "waitForElement", "click"}

\* the tab's page-load pipeline: navigations, lifecycle updates and waits on
\* pipeline statuses
PipelineNext ==
    \/ onNavigationRequested("goto")
    \/ \E update \in LifecycleUpdates : recordLifecycleEvent(update)
    \/ \E status \in PipelineStatuses \cup {READY} : waitFor(status, Omitted, TRUE)

PipelineSpec == Init /\ [][PipelineNext]_vars

\* commands, navigations and waits on the reload / change triggers
TriggerNext ==
    \/ \E name \in CommandNames : runCommand(name)
    \/ \E reason \in NavigationReasons : onNavigationRequested(reason)
    \/ \E status \in LocationTrigger, since \in {Omitted} \cup (0 .. MaxCommands),
          inclusive \in BOOLEAN : waitFor(status, since, inclusive)

TriggerSpec == Init /\ [][TriggerNext]_vars

\* navigations, the load of their resource, waits on them and the close of
\* the session
NavigationWaitNext ==
    \/ onNavigationRequested("goto")
    \/ \E status \in {"change", "DomContentLoaded"} : waitFor(status, Omitted, TRUE)
    \/ waitForLocationResourceId
    \/ \E resourceId \in ResourceIds, error \in {"none"} \cup NavigationErrors :
          resourceLoadedForLocation(resourceId, error)
    \/ close

NavigationWaitSpec == Init /\ [][NavigationWaitNext]_vars

\* commands run through SessionState.runCommand while time passes and the
\* session is closed
CommandNext ==
    \/ timePasses
    \/ \E name \in {"goto", "click"} : runCommandStart(name)
    \/ \E id \in 1 .. MaxCommands, settled \in {"value", "FnError"} :
          runCommandFinish(id, settled)
    \/ close

CommandSpec == Init /\ [][CommandNext]_vars

\* resources are captured, websocket messages captured and listened to
WebsocketNext ==
    \/ \E b \in BrowserRequestIds, r \in ResourceIds : resourceEventToMeta(b, r)
    \/ \E b \in BrowserRequestIds : captureWebsocketMessage(b)
    \/ \E r \in ResourceIds, l \in Listeners : onWebsocketMessages(r, l)
    \/ \E r \in ResourceIds, l \in Listeners : stopWebsocketMessages(r, l)

WebsocketSpec == Init /\ [][WebsocketNext]_vars

\* a listener function is registered more than once, for the resources of
\* one websocket
RegistrationNext ==
    \/ \E r \in ResourceIds : resourceEventToMeta("request1", r)
    \/ captureWebsocketMessage("request1")
    \/ \E r \in ResourceIds, l \in Listeners :
          onWebsocketMessagesUpTo(r, l, MaxListeners + 1)
    \/ \E r \in ResourceIds, l \in Listeners : stopWebsocketMessages(r, l)

RegistrationSpec == Init /\ [][RegistrationNext]_vars

\* sessions are requested of a connection that is disconnected meanwhile
ClosingNext ==
    \/ \E m \in 1 .. MaxRequests : handleRequestCreateSession(m)
    \/ \E m \in 1 .. MaxRequests : createSessionResponds(m)
    \/ \E c \in Calls : createSessionRegister(c)
    \/ \E c \in Calls : createSessionReturn(c)
    \/ \E s \in Calls : sessionClosed(s)
    \/ \E p \in BOOLEAN : connect(p)
    \/ disconnect
    \/ disconnectFinish

ClosingSpec == Init /\ [][ClosingNext]_vars

\* agents are constructed in one script instance
NamesNext == \E requestedName \in RequestedNames : newAgent(requestedName)

NamesSpec == Init /\ [][NamesNext]_vars

\* resources of the tabs are captured while the tab navigates
ResourceNext ==
    \/ onNavigationRequested("goto")
    \/ waitForLocationResourceId
    \/ \E t \in TabIds, b \in BrowserRequestIds, u \in Urls, m \in Methods,
          isResponse \in BOOLEAN :
          captureResource(t, b, u, m, isResponse)
    \/ \E t \in TabIds, b \in BrowserRequestIds, u \in Urls, m \in Methods,
          e \in NavigationErrors :
          captureResourceError(t, b, u, m, e)

ResourceSpec == Init /\ [][ResourceNext]_vars

\* the histories a tab can have when page events arrive: the entries start
\* at command ids that do not decrease
HistoryEntries ==
    {[navigationReason |-> "goto", startCommandId |-> c,
      stateChanges |-> IF responded THEN {"HttpRequested", "HttpResponded"}
                       ELSE {"HttpRequested"},
      resourceId |-> 0, navigationError |-> "none"] :
        c \in 0 .. MaxCommands, responded \in BOOLEAN}

Histories ==
    {h \in UNION {[1 .. n -> HistoryEntries] : n \in 0 .. MaxHistory} :
        \A i \in DOMAIN h : i > 1 => h[i - 1].startCommandId <= h[i].startCommandId}

\* the batches of one message: the command id of each event, in order
EventCommandIds == {Placeholder} \cup (1 .. MaxCommands)

Batches ==
    {[i \in DOMAIN ids |-> [commandId |-> ids[i], event |-> i]] :
        ids \in UNION {[1 .. n -> EventCommandIds] : n \in 1 .. MaxEvents}}

BatchOrNone(batch) == {batch, <<>>}

\* a message of page events is about to be handled
PageEventsInit ==
    /\ PoolInit
    /\ history \in Histories
    /\ commands = [i \in 1 .. MaxCommands |-> "goto"]
    /\ defaultWaitForLocationCommandId = 0
    /\ waitForCbs = [st \in LocationStatuses |-> <<>>]
    /\ waits = <<>>
    /\ resolveOrder = <<>>
    /\ closeDate = "undefined"
    /\ resourceWaits = <<>>
    /\ RecorderInit
    /\ \E batch \in Batches :
          pageEvents \in [pending : {TRUE},
                          domChanges : BatchOrNone(batch),
                          mouseEvents : BatchOrNone(batch),
                          focusEvents : BatchOrNone(batch),
                          scrollEvents : BatchOrNone(batch)]
    /\ domChangeRows = <<>>
    /\ mouseEventRows = <<>>
    /\ focusEventRows = <<>>
    /\ scrollEventRows = <<>>

PageEventsNext == \E tabId \in RegisteredTabs : onPageEvents(tabId)

PageEventsSpec == PageEventsInit /\ [][PageEventsNext]_vars

\* the anchor the tracker holds after the commands were run one by one
RECURSIVE AnchorAfter(_)
AnchorAfter(names) ==
    IF names = <<>> THEN 0
    ELSE LET previous == SubSeq(names, 1, Len(names) - 1)
         IN  willRunCommand(names[Len(names)], Len(names), previous,
                            AnchorAfter(previous))

\* a tab that ran some commands and navigated at most once, about to run
\* its next command
PreviousCommands == UNION {[1 .. n -> CommandNames] : n \in 0 .. MaxPrevious}

NavigationsDuring(names) ==
    {<<>>} \cup
    {<<[navigationReason |-> reason, startCommandId |-> c, stateChanges |-> {},
        resourceId |-> 0, navigationError |-> "none"]>> :
        reason \in {"goto", "reload"}, c \in 0 .. Len(names)}

AnchorInit ==
    /\ PoolInit
    /\ RecInit
    /\ commands \in PreviousCommands
    /\ history \in NavigationsDuring(commands)
    /\ defaultWaitForLocationCommandId = AnchorAfter(commands)
    /\ waitForCbs = [st \in LocationStatuses |-> <<>>]
    /\ waits = <<>>
    /\ resolveOrder = <<>>

AnchorNext ==
    \/ \E name \in CommandNames : runCommandUpTo(name, MaxPrevious + 1)
    \/ \E status \in LocationTrigger : waitFor(status, Omitted, TRUE)

AnchorSpec == AnchorInit /\ [][AnchorNext]_vars

\* several waiters registered before the tab navigates: waitFor was called
\* once per waiter, each call registering its resolve on the list of its status
WaiterIds == 1 .. (MaxWaits + 1)

RegisteredOn(statuses, st) ==
    SelectSeq([w \in WaiterIds |-> w], LAMBDA w : statuses[w] = st)

WaitersInit ==
    /\ PoolInit
    /\ RecInit
    /\ history = <<>>
    /\ commands = <<>>
    /\ defaultWaitForLocationCommandId = 0
    /\ resolveOrder = <<>>
    /\ \E statuses \in [WaiterIds -> LocationStatuses] :
          /\ waits = [w \in WaiterIds |->
                         [asked |-> statuses[w], status |-> statuses[w], since |-> 0,
                          inclusive |-> TRUE, immediate |-> FALSE, resolved |-> 0]]
          /\ waitForCbs = [st \in LocationStatuses |-> RegisteredOn(statuses, st)]

\* the tab navigates and loads: triggers and pipeline statuses are announced
WaitersNext ==
    \/ \E reason \in {"newTab", "goto", "reload"} : onNavigationRequested(reason)
    \/ \E status \in {"HttpRequested", "HttpResponded", "DomContentLoaded"} :
          recordLifecycleEvent(<<status>>)

WaitersSpec == WaitersInit /\ [][WaitersNext]_vars

\* a handler dispatches agents, their callbacks run, the handler is closed
ClientNext ==
    \/ \E a \in Agents : dispatchAgent(a)
    \/ \E a \in Agents : connectSession(a)
    \/ \E a \in Agents : createSessionResolved(a)
    \/ \E a \in Agents : AgentClose(a)
    \/ \E a \in Agents : SessionConnectionClose(a)
    \/ \E a \in Agents : dispatchSettled(a)
    \/ HandlerClose

ClientSpec == Init /\ [][ClientNext]_vars

\* the payloads a client can send, and the commands settling
NestedPayloads == [messageId : 1 .. MaxRequests, command : {"bogus"}]

ConnectionNext ==
    \/ \E command \in RequestCommands, tabFound \in BOOLEAN,
          nested \in NestedPayloads :
          handleRequest(command, tabFound, nested)
    \/ \E m \in 1 .. MaxRequests, outcome \in {"value", "thrown"} :
          handleRequestRespond(m, outcome)

ConnectionSpec == Init /\ [][ConnectionNext]_vars

\* captures and commands arrive before and after the session is closed
ClosedSessionNext ==
    \/ close
    \/ \E b \in BrowserRequestIds :
          captureResource("tab1", b, NavigationUrl, "GET", TRUE)
    \/ \E b \in BrowserRequestIds : captureWebsocketMessage(b)
    \/ runCommandStart("click")

ClosedSessionSpec == Init /\ [][ClosedSessionNext]_vars

\* sessions are constructed and closed while log entries are emitted, for
\* a session or for none
SessionsNext ==
    \/ \E s \in SessionIds : SessionStateConstructor(s)
    \/ \E s \in SessionIds : SessionStateClose(s)
    \/ \E s \in SessionIds \cup {"none"}, level \in {"info", "error"} :
          LogEventsBroadcast(s, level)

SessionsSpec == Init /\ [][SessionsNext]_vars

\* the times the clock has shown since the session was created
Times == createDate .. MaxTime

\* a tab's top navigation: none, or initiated and perhaps loaded since
Tops ==
    {NoTop} \cup
    {n \in [initiatedTime : Times, allContentLoaded : {0} \cup Times] :
        n.allContentLoaded = 0 \/ n.initiatedTime <= n.allContentLoaded}

\* a command as runCommand leaves it: running, returned or thrown
CommandMetaStates ==
    {[startDate |-> st, endDate |-> 0, result |-> "undefined",
      resultType |-> "undefined"] : st \in Times}
    \cup {m \in [startDate : Times, endDate : Times, result : {"value"},
                 resultType : {"Object"}] : m.startDate <= m.endDate}
    \cup {m \in [startDate : Times, endDate : Times, result : {"FnError"},
                 resultType : {"Error"}] : m.startDate <= m.endDate}

\* the commands of a session, in the order they were started
CommandHistories ==
    {metas \in UNION {[1 .. n -> CommandMetaStates] : n \in 0 .. MaxCommands} :
        \A i, j \in DOMAIN metas : i < j => metas[i].startDate <= metas[j].startDate}

\* what runCommand reported to the caller of the command
CallOf(meta) ==
    IF meta.endDate = 0 THEN [commandFn |-> "running", outcome |-> "pending"]
    ELSE [commandFn |-> meta.result, outcome |-> meta.result]

\* an open session at the latest time: its tabs have navigated, commands
\* have run and an error may have been logged
ResponsiveInit ==
    /\ PoolInit
    /\ history = <<>>
    /\ defaultWaitForLocationCommandId = 0
    /\ waitForCbs = [st \in LocationStatuses |-> <<>>]
    /\ waits = <<>>
    /\ resolveOrder = <<>>
    /\ closeDate = "undefined"
    /\ resourceWaits = <<>>
    /\ now = MaxTime
    /\ dbOpen = TRUE
    /\ commandMetas \in CommandHistories
    /\ commands = [i \in DOMAIN commandMetas |-> "click"]
    /\ commandCalls = [i \in DOMAIN commandMetas |-> CallOf(commandMetas[i])]
    /\ commandRows = {[id |-> i, startDate |-> commandMetas[i].startDate,
                       endDate |-> commandMetas[i].endDate,
                       result |-> commandMetas[i].result] : i \in DOMAIN commandMetas}
    /\ browserRequestIdToResources = [b \in BrowserRequestIds |-> <<>>]
    /\ websocketMessages = <<>>
    /\ websocketListeners = [r \in ResourceIds |-> <<>>]
    /\ websocketMessageIdCounter = 0
    /\ websocketRows = <<>>
    /\ delivered = [l \in Listeners |-> <<>>]
    /\ captureReturns = <<>>
    /\ listens = 0
    /\ lastErrorTime \in {0} \cup Times
    /\ sessionLogs = IF lastErrorTime = 0 THEN <<>>
                     ELSE <<[sessionId |-> "this", level |-> "error",
                             action |-> "Window.error", timestamp |-> lastErrorTime]>>
    /\ navigationsByTabId \in [TabIds -> Tops]
    /\ responsive = NotCalled
    /\ registry = {}
    /\ sessionLife = [s \in SessionIds |-> "none"]
    /\ logSubscribers = {}
    /\ lastErrorTimeOf = [s \in SessionIds |-> 0]
    /\ sessionLogsOf = [s \in SessionIds |-> <<>>]
    /\ logEntries = <<>>
    /\ sessionResources = <<>>
    /\ resourceRows = <<>>
    /\ notifications = <<>>
    /\ resourceCaptures = 0
    /\ requests = <<>>
    /\ emitted = <<>>
    /\ agents = [a \in Agents |->
                    [dispatch |-> "none", hasConnected |-> FALSE, isClosing |-> FALSE,
                     coreSession |-> "none", closeSent |-> FALSE]]
    /\ outgoing = <<>>
    /\ handlerClosed = FALSE
    /\ scriptInstance = [sessionNameCountByName |-> <<>>, requested |-> <<>>,
                         names |-> <<>>]
    /\ EventsInit

\* the responsiveness query, asked of any such session
ResponsiveNext == \E order \in TabOrders : checkForResponsive(order)

ResponsiveSpec == ResponsiveInit /\ [][ResponsiveNext]_vars

\* The event loop runs every continuation that is ready, and the client closes
\* every session it was handed (Agent.close -> closeSession).
PoolFairSpec ==
    /\ PoolSpec
    /\ \A c \in Calls : WF_vars(createSessionRegister(c))
    /\ \A c \in Calls : WF_vars(createSessionReturn(c))
    /\ \A c \in Calls : WF_vars(closeSession(c))

(***************************************************************************)
(* Claims on the pool                                                      *)
(***************************************************************************)
AtCapacity == Cardinality(OpenSessions) = MaxConcurrentAgentsCount

LeavesQueueOnlyOnClose(c) ==
    (callState[c] = "waiting" /\ callState'[c] # "waiting")
        => /\ callState'[c] = "created"
           /\ \E s \in Calls : session[s] = "open" /\ session'[s] = "closing"

\* C2 (as stated): a createSession call issued while maxConcurrentAgentsCount
\* sessions are open stays pending -- it gets no session and no error -- until
\* an open session closes.
C2_PendingWhileFull_Original ==
    [][\A c \in Calls :
          /\ (callState[c] = "idle" /\ callState'[c] # "idle" /\ AtCapacity)
                => callState'[c] = "waiting"
          /\ LeavesQueueOnlyOnClose(c)]_vars

\* C2 (amended): the same for a call issued on a connection that is not
\* closing; on a closing connection the call fails with 'Connection closed'.
C2_PendingWhileFull ==
    [][\A c \in Calls :
          /\ (callState[c] = "idle" /\ callState'[c] # "idle" /\ AtCapacity
                 /\ ~isClosing)
                => callState'[c] = "waiting"
          /\ LeavesQueueOnlyOnClose(c)]_vars

\* a call is pending on an open connection whose pool is full
C2_Witness ==
    /\ AtCapacity
    /\ ~isClosing
    /\ \E c \in Calls : callState[c] = "waiting"

\* C3: a createSession call queued at capacity eventually completes once
\* sessions close (the released slot goes to the queued call).
C3_QueuedEventuallyCompletes ==
    \A c \in Calls : (callState[c] = "waiting") ~> (callState[c] = "done")

\* a call that had to wait has returned its session
C3_Witness == \E c \in queued : callState[c] = "done" /\ session[c] = "open"

(***************************************************************************)
(* Location waits                                                          *)
(***************************************************************************)
ReloadReasons == {"httpHeaderRefresh", "metaTagRefresh", "reload"}

\* a waitFor call was made in this step; Issued is its record
Issues == Len(waits') = Len(waits) + 1
Issued == waits'[Len(waits')]

\* the suspended waiter w is resolved in this step
Woken(w) == waits'[w].resolved > waits[w].resolved

\* a navigation is requested in this step; Requested is its entry
Requests == Len(history') = Len(history) + 1
Requested == history'[Len(history')]

\* the top entry records exactly the new status S in this step, in pipeline
\* order
ReachesInOrder(S) ==
    /\ hasTop
    /\ Len(history') = Len(history)
    /\ S \notin top.stateChanges
    /\ currentStep < getStepByStatus(S)
    /\ history'[Len(history')].stateChanges = top.stateChanges \cup {S}

\* the waiters suspended on S are all resolved, once each, and S's list is
\* empty
ResolvesWaitersOf(S) ==
    /\ waitForCbs'[S] = <<>>
    /\ \A w \in Range(waitForCbs[S]) : waits'[w].resolved = 1

\* the entry's start command lies after the anchor of a wait
StartsAfter(navigation, since, inclusive) ==
    \/ navigation.startCommandId > since
    \/ inclusive /\ navigation.startCommandId >= since

\* C4: a waitFor(S) issued before S is reached resolves exactly once, after S
\* is reached and never before, when the lifecycle events arrive in pipeline
\* order: no waiter is resolved twice; a waiter is resolved only in a step
\* that takes the top entry to S's step or beyond; and the step that reaches
\* S (the request of a navigation for NavigationRequested, the recording of
\* S for the later statuses) resolves every waiter suspended on S.
C4_ResolvesOnceAfterReached ==
    [][/\ \A w \in DOMAIN waits :
            /\ waits'[w].resolved <= 1
            /\ waits[w].status \in PipelineStatuses /\ Woken(w)
                  => /\ hasTop'
                     /\ currentStep' >= getStepByStatus(waits[w].status)
       /\ Requests => ResolvesWaitersOf("NavigationRequested")
       /\ \A S \in LifecycleStatuses : ReachesInOrder(S) => ResolvesWaitersOf(S)
      ]_vars

\* C5: while the top navigation entry stays the same, currentStep never
\* decreases, and no entry of the history ever falls back to a lower step.
C5_CurrentStepMonotone ==
    [][/\ Len(history') = Len(history) => currentStep' >= currentStep
       /\ \A i \in 1 .. Len(history) :
              getPipelineStatus(history'[i]) >= getPipelineStatus(history[i])
      ]_vars

\* the top entry is at the last step with HttpRequested recorded and
\* HttpResponded passed over
C5_Witness ==
    /\ hasTop
    /\ currentStep = 5
    /\ "HttpRequested" \in top.stateChanges
    /\ "HttpResponded" \notin top.stateChanges

\* C6: a request, its redirects and the response delivered as one update
\* leave the HttpRedirected waiters suspended, resolve every HttpResponded
\* waiter exactly once and record every status of the update; an
\* HttpRedirected waiter is resolved only by an update whose final step is
\* HttpRedirected.
C6_RedirectCoalescing ==
    [][/\ \A n \in 1 .. MaxRedirects :
            recordLifecycleEvent(RedirectUpdate(n))
               /\ currentStep < getStepByStatus("HttpResponded")
            => /\ waitForCbs'["HttpRedirected"] = waitForCbs["HttpRedirected"]
               /\ \A w \in Range(waitForCbs["HttpRedirected"]) :
                      waits'[w].resolved = 0
               /\ ResolvesWaitersOf("HttpResponded")
               /\ Range(RedirectUpdate(n)) \subseteq
                      history'[Len(history')].stateChanges
       /\ \A w \in DOMAIN waits :
            waits[w].status = "HttpRedirected" /\ Woken(w)
               => currentStep' = getStepByStatus("HttpRedirected")
      ]_vars

\* an HttpRedirected waiter is still suspended although the redirect and the
\* response are recorded
C6_Witness ==
    /\ hasTop
    /\ {"HttpRequested", "HttpRedirected", "HttpResponded"} \subseteq top.stateChanges
    /\ \E w \in DOMAIN waits :
          /\ waits[w].status = "HttpRedirected"
          /\ ~waits[w].immediate
          /\ waits[w].resolved = 0
          /\ w \in Range(waitForCbs["HttpRedirected"])

\* C7: a navigation whose reason is httpHeaderRefresh, metaTagRefresh or
\* reload satisfies waitFor('reload') anchored before its start command (a
\* suspended waiter is resolved by its request, a later call returns at
\* once), and none of these navigations satisfies waitFor('change'): its
\* request leaves the change waiters suspended and a later call returns at
\* once only for a navigation of another reason.
C7_ReloadFamily ==
    [][/\ Requests /\ Requested.navigationReason \in ReloadReasons
            => /\ \A w \in Range(waitForCbs["reload"]) :
                      waits[w].since < Requested.startCommandId
                         => waits'[w].resolved = 1
               /\ waitForCbs'["reload"] = <<>>
               /\ waitForCbs'["change"] = waitForCbs["change"]
               /\ \A w \in Range(waitForCbs["change"]) : waits'[w].resolved = 0
       /\ Issues /\ Issued.status = "reload"
            /\ (\E i \in 1 .. Len(history) :
                   /\ history[i].navigationReason \in ReloadReasons
                   /\ Issued.since < history[i].startCommandId)
            => Issued.immediate
       /\ Issues /\ Issued.status = "change" /\ Issued.immediate
            => \E i \in 1 .. Len(history) :
                   /\ history[i].navigationReason \notin ReloadReasons
                   /\ StartsAfter(history[i], Issued.since, Issued.inclusive)
      ]_vars

\* a suspended reload waiter was resolved by a header or meta-tag refresh
\* that started after its anchor
C7_Witness ==
    /\ hasTop
    /\ top.navigationReason \in {"httpHeaderRefresh", "metaTagRefresh"}
    /\ \E w \in DOMAIN waits :
          /\ waits[w].status = "reload"
          /\ ~waits[w].immediate
          /\ waits[w].resolved = 1
          /\ waits[w].since < top.startCommandId

\* C8: a navigation whose reason is newTab never satisfies a trigger wait:
\* its request resolves no waiter, and a waitFor('change') or
\* waitFor('reload') returns at once only for a navigation of another
\* reason that starts after the anchor.
C8_NewTabNeverTriggers ==
    [][/\ Requests /\ Requested.navigationReason = "newTab"
            => waits' = waits /\ waitForCbs' = waitForCbs
       /\ Issues /\ Issued.status \in LocationTrigger /\ Issued.immediate
            => \E i \in 1 .. Len(history) :
                   /\ history[i].navigationReason # "newTab"
                   /\ StartsAfter(history[i], Issued.since, Issued.inclusive)
      ]_vars

\* a trigger wait is suspended although a newTab navigation started after
\* its anchor
C8_Witness ==
    \E w \in DOMAIN waits :
        /\ waits[w].status \in LocationTrigger
        /\ ~waits[w].immediate
        /\ waits[w].resolved = 0
        /\ \E i \in 1 .. Len(history) :
              /\ history[i].navigationReason = "newTab"
              /\ StartsAfter(history[i], waits[w].since, waits[w].inclusive)

\* C9: for every pipeline status S from NavigationRequested to
\* AllContentLoaded, waitFor(S) returns at once exactly when the top entry
\* has reached S's step, and is suspended otherwise.
C9_ImmediateIffReached ==
    [][Issues /\ Issued.asked \in PipelineStatuses
          => (Issued.immediate <=>
                 hasTop /\ getStepByStatus(Issued.asked) <= currentStep)
      ]_vars

\* C10: waitFor(READY) returns at once when there is no navigation; with a
\* navigation it does what waitFor('DomContentLoaded') does: it returns at
\* once exactly when the top entry has reached DomContentLoaded, is
\* otherwise suspended on the DomContentLoaded list, and is resolved only by
\* a step that takes the top entry to DomContentLoaded or beyond.
C10_ReadyIsDomContentLoaded ==
    [][/\ Issues /\ Issued.asked = READY
            => IF ~hasTop
               THEN Issued.immediate /\ waitForCbs' = waitForCbs
               ELSE /\ Issued.immediate <=>
                          currentStep >= getStepByStatus("DomContentLoaded")
                    /\ Issued.immediate => waitForCbs' = waitForCbs
                    /\ ~Issued.immediate
                          => waitForCbs' =
                                [waitForCbs EXCEPT !["DomContentLoaded"] =
                                    Append(@, Len(waits'))]
       /\ \A w \in DOMAIN waits :
            waits[w].asked = READY /\ Woken(w)
               => currentStep' >= getStepByStatus("DomContentLoaded")
      ]_vars

\* a waitFor(READY) made during a navigation was suspended and then resolved
\* at DomContentLoaded
C10_Witness ==
    /\ hasTop
    /\ currentStep >= getStepByStatus("DomContentLoaded")
    /\ \E w \in DOMAIN waits :
          /\ waits[w].asked = READY
          /\ ~waits[w].immediate
          /\ waits[w].resolved = 1

\* C11: a waitFor on a trigger or a pipeline status (not READY) made while
\* the history is empty is suspended on the list of its status; no waiter
\* is resolved while the history is empty; and the waiters are resolved by
\* the matching event: the request of a navigation for NavigationRequested
\* and for the trigger the navigation's reason maps to, the recording of S
\* for the later pipeline statuses.
C11_SuspendsUntilNavigation ==
    [][/\ Issues /\ ~hasTop /\ Issued.asked # READY
            => /\ ~Issued.immediate
               /\ waitForCbs' = [waitForCbs EXCEPT ![Issued.status] =
                                    Append(@, Len(waits'))]
       /\ \A w \in DOMAIN waits : Woken(w) => hasTop'
       /\ Requests => ResolvesWaitersOf("NavigationRequested")
       /\ \A T \in LocationTrigger :
            Requests /\ Requested.navigationReason # "newTab"
               /\ (T = "reload" <=> Requested.navigationReason \in ReloadReasons)
            => ResolvesWaitersOf(T)
       /\ \A S \in LifecycleStatuses : ReachesInOrder(S) => ResolvesWaitersOf(S)
      ]_vars

(***************************************************************************)
(* Waits for the resource of a navigation, waits at close                  *)
(***************************************************************************)
\* the call r of waitForLocationResourceId gets its outcome in this step
Settles(r) ==
    /\ r \in DOMAIN resourceWaits'
    /\ resourceWaits'[r].outcome # "pending"
    /\ r \in DOMAIN resourceWaits => resourceWaits[r].outcome = "pending"

\* C12: a waitForLocationResourceId call made on a navigation stays
\* suspended exactly as long as the resource id of that navigation is not
\* known; when it goes on it returns the navigation's resource id if the
\* navigation stored no error, and fails with the stored error otherwise.
C12_ResourceIdOrStoredError ==
    [][\A r \in DOMAIN resourceWaits' :
          LET call == resourceWaits'[r]
              navigation == history'[call.nav]
          IN  call.nav > 0 =>
                /\ call.outcome = "pending" <=> navigation.resourceId = 0
                /\ Settles(r) /\ navigation.navigationError = "none"
                      => /\ call.outcome = "returned"
                         /\ call.resourceId = navigation.resourceId
                         /\ call.resourceId \in ResourceIds
                /\ Settles(r) /\ navigation.navigationError # "none"
                      => /\ call.outcome = "failed"
                         /\ call.error = navigation.navigationError
      ]_vars

\* a suspended call failed with the error stored by the load of the resource
C12_Witness ==
    \E r \in DOMAIN resourceWaits :
        /\ resourceWaits[r].outcome = "failed"
        /\ resourceWaits[r].nav > 0
        /\ resourceWaits[r].error = history[resourceWaits[r].nav].navigationError
        /\ resourceWaits[r].error \in NavigationErrors

\* C13: the close of the session fails every outstanding navigation wait:
\* after the step that sets closeDate, none of the waitFor and
\* waitForLocationResourceId calls that were suspended is still suspended.
C13_CloseFailsOutstandingWaits ==
    [][closeDate = "undefined" /\ closeDate' = "set"
          => /\ \A w \in DOMAIN waits :
                   ~waits[w].immediate /\ waits[w].resolved = 0
                      => waits'[w].resolved # 0
             /\ \A r \in DOMAIN resourceWaits :
                   resourceWaits[r].outcome = "pending"
                      => resourceWaits'[r].outcome = "failed"
      ]_vars

(***************************************************************************)
(* Commands                                                                *)
(***************************************************************************)
RowsOf(id) == {r \in commandRows : r.id = id}

\* C14: when runCommand has finished for a command whose function threw,
\* the command table holds exactly one row for the command id, with endDate
\* set and the thrown error as result; and the start row is in the table
\* while the function runs.
C14_ThrownCommandIsRecorded ==
    \A id \in DOMAIN commandCalls :
        /\ commandCalls[id].commandFn = "FnError"
              => /\ Cardinality(RowsOf(id)) = 1
                 /\ \A r \in RowsOf(id) : r.endDate # 0 /\ r.result = "FnError"
        /\ commandCalls[id].commandFn = "running" => Cardinality(RowsOf(id)) = 1

\* C15: what runCommand gives its caller is what the wrapped function did:
\* its value when it returned, its own error when it threw, and nothing
\* else in any state of the session.
C15_OutcomeIsFunctionOutcome ==
    \A id \in DOMAIN commandCalls :
        commandCalls[id].outcome # "pending"
           => /\ commandCalls[id].commandFn \in {"value", "FnError"}
              /\ commandCalls[id].outcome = commandCalls[id].commandFn


\* onWebsocketMessages(r, l) is the step being taken
Registers(r, l) ==
    /\ listens' = listens + 1
    /\ websocketListeners' = [websocketListeners EXCEPT ![r] = Append(@, l)]

\* the positions of the captured messages of resource r
PositionsOf(r) ==
    {i \in DOMAIN websocketMessages : websocketMessages[i].resourceId = r}

\* the position of the k-th captured message of resource r
PositionOf(r, k) ==
    CHOOSE i \in PositionsOf(r) :
        Cardinality({j \in PositionsOf(r) : j <= i}) = k

\* C16: registering a listener for a resource id after M messages were
\* captured for it calls the listener, within the registration itself, with
\* exactly those M messages in capture order and with no message of another
\* resource; whatever is captured afterwards is delivered after them.
C16_ReplayOnRegistration ==
    [][\A l \in Listeners :
          /\ Len(delivered'[l]) >= Len(delivered[l])
          /\ SubSeq(delivered'[l], 1, Len(delivered[l])) = delivered[l]
          /\ \A r \in ResourceIds :
                Registers(r, l) =>
                    LET replay == SubSeq(delivered'[l], Len(delivered[l]) + 1,
                                         Len(delivered'[l]))
                    IN  /\ Len(replay) = Cardinality(PositionsOf(r))
                        /\ \A k \in DOMAIN replay :
                              /\ replay[k].resourceId = r
                              /\ replay[k].replayed
                              /\ replay[k].messageId =
                                    websocketMessages[PositionOf(r, k)].messageId
          /\ (\A r \in ResourceIds : ~Registers(r, l)) =>
                \A k \in (Len(delivered[l]) + 1) .. Len(delivered'[l]) :
                    ~delivered'[l][k].replayed]_vars

\* a listener registered after messages of two resources were captured has
\* been called with the one message of its resource
C16_Witness ==
    \E l \in Listeners :
        /\ Len(websocketMessages) = 2
        /\ websocketMessages[1].resourceId # websocketMessages[2].resourceId
        /\ Len(delivered[l]) = 1
        /\ delivered[l][1].replayed

\* C17: captureWebsocketMessage for a browser request id that has no resource
\* returns nothing and adds no message, no stored row, no listener call and
\* no message id; messages captured afterwards are handled as usual.
C17_UnregisteredIsDropped ==
    [][\A b \in BrowserRequestIds :
          (browserRequestIdToResources[b] = <<>> /\ captureWebsocketMessage(b)) =>
              /\ captureReturns' = Append(captureReturns, 0)
              /\ UNCHANGED <<websocketMessages, websocketRows, delivered,
                             websocketMessageIdCounter, websocketListeners,
                             browserRequestIdToResources>>
              /\ closeDate' = "undefined"]_vars

\* a message of an unregistered request id was dropped, and the next
\* message, of a registered one, was captured with the first message id
C17_Witness ==
    /\ captureReturns = <<0, 1>>
    /\ Len(websocketMessages) = 1
    /\ Len(websocketRows) = 1

\* C18: the message ids of a session's captured websocket messages increase
\* strictly in capture order, whatever the resources of the messages, so no
\* two messages share an id.
C18_MessageIdsIncrease ==
    /\ \A i, j \in DOMAIN websocketMessages :
          i < j => websocketMessages[i].messageId < websocketMessages[j].messageId
    /\ \A i, j \in DOMAIN websocketRows :
          i < j => websocketRows[i].message.messageId < websocketRows[j].message.messageId

\* two messages of two resources were captured one after the other
C18_Witness ==
    /\ Len(websocketMessages) = 2
    /\ websocketMessages[1].resourceId # websocketMessages[2].resourceId
    /\ websocketMessages[2].messageId = websocketMessageIdCounter
    /\ Len(websocketRows) = 2

\* the AllContentLoaded times of the tabs' navigations
CompletedLoads ==
    {navigationsByTabId[t].allContentLoaded : t \in TabIds} \ {0}

\* the end times of the completed non-error commands that ended after a
\* completed content load
SuccessfulCommandEnds ==
    {commandMetas[i].endDate : i \in DOMAIN commandMetas} \cap
    {e \in Times : \E i \in DOMAIN commandMetas :
        /\ commandMetas[i].endDate = e
        /\ commandMetas[i].resultType # "Error"
        /\ \E load \in CompletedLoads : load < e}

\* the latest of a set of times
Latest(times) == CHOOSE t \in times : \A u \in times : u <= t

\* C19: hasRecentErrors is true exactly when an error was captured at or
\* after the last success, the later of the most recent AllContentLoaded and
\* the most recent end of a non-error command that ended after a load; an
\* error after the load with no success since makes it true, no error false.
C19_RecentErrorsIffAfterLastSuccess ==
    (responsive.called /\ CompletedLoads # {}) =>
        (responsive.hasRecentErrors <=>
            /\ lastErrorTime # 0
            /\ lastErrorTime >= Latest(CompletedLoads \cup SuccessfulCommandEnds))

\* C20: the last-success time checkForResponsive uses is the later of the
\* most recent AllContentLoaded time over the tabs and the most recent end
\* of a completed non-error command that ended after a completed load,
\* whatever the order the tabs are visited in.
C20_LastSuccessIsLatestLoadOrCommand ==
    (responsive.called /\ CompletedLoads # {}) =>
        responsive.lastSuccessDate = Latest(CompletedLoads \cup SuccessfulCommandEnds)

GainsLogRow == {s \in SessionIds : Len(sessionLogsOf'[s]) > Len(sessionLogsOf[s])}

\* C27: an emitted log entry is inserted in the session logs of one session
\* at most, the open session it belongs to, and an error entry moves the
\* last-error time of no session but the one it belongs to, however many
\* sessions are open.
C27_LogEntryHasOneSession ==
    [][Len(logEntries') = Len(logEntries) + 1 =>
          LET entry == logEntries'[Len(logEntries')]
          IN  /\ Cardinality(GainsLogRow) <= 1
              /\ \A s \in SessionIds :
                    (entry.sessionId = s /\ sessionLife[s] = "open") => GainsLogRow = {s}
              /\ \A s \in SessionIds :
                    lastErrorTimeOf'[s] # lastErrorTimeOf[s] => s = entry.sessionId]_vars

\* the step calls resourceLoadedForLocation
Notifies == Len(notifications') = Len(notifications) + 1

\* the resource is the one the tab's navigation is loading, and was not
\* asked for with OPTIONS
LoadsNavigationOf(t, u, m) ==
    /\ t \in RegisteredTabs
    /\ hasTop
    /\ u = NavigationUrl
    /\ m # "OPTIONS"

\* the resource id of the top navigation, 0 without one or while unresolved
TopResourceId(h) == IF h = <<>> THEN 0 ELSE h[Len(h)].resourceId

\* C29: a captured response, or a captured resource error, notifies the
\* navigations of the tab exactly when the resource's url is the url the tab
\* is loading and the method is not OPTIONS; a request-only capture, an
\* OPTIONS request, another url or a tab that is not registered leaves the
\* navigation's resource id unresolved.
C29_NotifiesIffLocationResource ==
    [][\A t \in TabIds, b \in BrowserRequestIds, u \in Urls, m \in Methods :
          /\ \A isResponse \in BOOLEAN :
                captureResource(t, b, u, m, isResponse) =>
                    /\ Notifies <=> (isResponse /\ LoadsNavigationOf(t, u, m))
                    /\ Notifies =>
                          notifications'[Len(notifications')] =
                             [tabId |-> t, resourceId |-> resourceCaptures',
                              error |-> "none"]
                    /\ ~Notifies => history' = history
                    /\ (Notifies /\ TopResourceId(history) = 0) =>
                          TopResourceId(history') = resourceCaptures'
          /\ \A e \in NavigationErrors :
                captureResourceError(t, b, u, m, e) =>
                    /\ Notifies <=> LoadsNavigationOf(t, u, m)
                    /\ Notifies =>
                          /\ notifications'[Len(notifications')] =
                                [tabId |-> t, resourceId |-> resourceCaptures',
                                 error |-> e]
                          /\ history'[Len(history')].navigationError = e
                    /\ ~Notifies => history' = history]_vars

\* an OPTIONS response for the url of the navigation was captured and left
\* it unresolved; the response that followed resolved it
C29_Witness ==
    /\ Len(resourceRows) = 2
    /\ resourceRows[1].url = NavigationUrl
    /\ resourceRows[1].tabId \in RegisteredTabs
    /\ Len(sessionResources) = 2
    /\ notifications = <<[tabId |-> "tab1", resourceId |-> 2, error |-> "none"]>>
    /\ TopResourceId(history) = 2

\* C22: once the session is closed a capture call or a command adds nothing:
\* no row to the store of the session, and no entry to what the session
\* keeps in memory (resources, redirect chains, websocket messages, commands).
C22_NoWritesAfterClose ==
    [][closeDate = "set" =>
          /\ UNCHANGED <<resourceRows, websocketRows, commandRows, sessionLogs>>
          /\ UNCHANGED <<sessionResources, browserRequestIdToResources,
                         websocketMessages, commands, commandMetas>>]_vars

\* the connection owns a session or is persistent
OwnsSessionOrPersistent == Cardinality(sessionIds) >= 1 \/ isPersistent

\* C25: isActive() is true exactly when the connection owns a session or is
\* persistent; the close of a session arms the auto-shutdown timer only when
\* the connection is not active, and when the timer expires the connection
\* starts to disconnect exactly if it is not active then, so a persistent
\* connection or one that owns a session again is left connected.
C25_AutoShutdownRespectsIsActive ==
    [][/\ isActive(sessionIds, isPersistent) <=> OwnsSessionOrPersistent
       /\ autoShutdownTimeout =>
             ((~isClosing /\ isClosing') <=> (~OwnsSessionOrPersistent /\ ~isClosing))
       /\ \A s \in Calls :
             (sessionClosed(s) /\ ~autoShutdownTimer /\ autoShutdownTimer') =>
                 ~OwnsSessionOrPersistent]_vars

\* the timer was armed by the close of the last session and the connection
\* was made persistent within the window
C25_Witness ==
    /\ autoShutdownTimer
    /\ isPersistent
    /\ sessionIds = {}
    /\ ~isClosing
    /\ \E s \in Calls : session[s] = "closed"

(***************************************************************************)
(* C23, C24: responses of handleRequest                                    *)
(***************************************************************************)
\* the messages emitted in answer to messageId
ResponsesTo(messageId) ==
    {i \in DOMAIN emitted : emitted[i].responseId = messageId}

\* C23: every request handled gets exactly one response carrying its
\* messageId, none while its command is still awaited; the response has
\* isError = TRUE exactly when the command did not return a value, and the
\* connection is not closing afterwards.
C23_OneResponsePerRequest ==
    \A m \in DOMAIN requests :
        /\ Cardinality(ResponsesTo(m)) =
              IF requests[m].state = "awaiting" THEN 0 ELSE 1
        /\ \A i \in ResponsesTo(m) :
              emitted[i].isError = (requests[m].state # "returned")
        /\ ~isClosing

\* a request whose command threw has been answered
C23_Witness ==
    \E m \in DOMAIN requests :
        /\ requests[m].state = "threw"
        /\ \E i \in ResponsesTo(m) : emitted[i].isError

\* C24: handling a command that is neither an operation of the connection
\* nor a method of the addressed tab emits one response with isError = TRUE
\* that names the command, and changes neither the connection nor a session.
C24_UnknownCommandIsRefused ==
    [][\A command \in RequestCommands, nested \in NestedPayloads :
          (/\ handleRequest(command, TRUE, nested)
           /\ command \notin ConnectionOperations \cup TabMethods)
          => /\ Len(emitted') = Len(emitted) + 1
             /\ emitted'[Len(emitted')].responseId = Len(requests) + 1
             /\ emitted'[Len(emitted')].isError
             /\ emitted'[Len(emitted')].names = command
             /\ UNCHANGED <<poolVars, registry, sessionLife, closeDate>>]_vars

\* a name nothing has was refused with an error naming it
C24_Witness ==
    \E m \in DOMAIN requests :
        /\ requests[m].command = "bogus"
        /\ \E i \in ResponsesTo(m) : emitted[i].names = "bogus"

(***************************************************************************)
(* C26: the commands a handler sends for its agents                        *)
(***************************************************************************)
\* how many times a command was sent for an agent
SentCount(command, agent) ==
    Cardinality({i \in DOMAIN outgoing : outgoing[i] = Sent(command, agent)})

Dispatched == {a \in Agents : agents[a].dispatch # "none"}

\* C26: no agent has more than one createSession or closeSession sent and no
\* session is closed that was not created; once a handler that dispatched
\* agents is closed, the commands sent are one connect, one createSession
\* and one closeSession for each dispatched agent, and one disconnect.
C26_OneSessionPerAgent ==
    /\ \A a \in Agents :
          /\ SentCount("createSession", a) <= 1
          /\ SentCount("closeSession", a) <= SentCount("createSession", a)
    /\ (handlerClosed /\ Dispatched # {}) =>
          /\ SentCount("connect", 0) = 1
          /\ SentCount("disconnect", 0) = 1
          /\ \A a \in Dispatched :
                /\ SentCount("createSession", a) = 1
                /\ SentCount("closeSession", a) = 1
          /\ Len(outgoing) = 2 + 2 * Cardinality(Dispatched)

\* a handler that dispatched every agent is closed
C26_Witness ==
    /\ handlerClosed
    /\ Dispatched = Agents
    /\ Len(outgoing) = 2 + 2 * MaxAgents

(***************************************************************************)
(* C28: command ids of the page events persisted                           *)
(***************************************************************************)
\* the rows of a batch are its events, in order, a placeholder replaced by id
PersistedAs(rows, batch, id) ==
    /\ Len(rows) = Len(batch)
    /\ \A i \in DOMAIN batch :
          /\ rows[i].event = batch[i].event
          /\ rows[i].commandId =
                IF batch[i].commandId = Placeholder THEN id ELSE batch[i].commandId

AllPersistedAs(id) ==
    /\ PersistedAs(domChangeRows, pageEvents.domChanges, id)
    /\ PersistedAs(mouseEventRows, pageEvents.mouseEvents, id)
    /\ PersistedAs(focusEventRows, pageEvents.focusEvents, id)
    /\ PersistedAs(scrollEventRows, pageEvents.scrollEvents, id)

\* a batch of the message handled holds a placeholder
HasPlaceholder ==
    \E batch \in {pageEvents.domChanges, pageEvents.mouseEvents,
                  pageEvents.focusEvents, pageEvents.scrollEvents} :
        \E i \in DOMAIN batch : batch[i].commandId = Placeholder

\* C28 as stated: once the message is handled, every batch is persisted in
\* its order, ids other than the placeholder unchanged, and every placeholder
\* replaced by the startCommandId of the last navigation of the history that
\* reached HttpResponded -- so there is such a navigation.
C28_PlaceholdersTakeRespondedNavigation ==
    ~pageEvents.pending =>
        \/ ~HasPlaceholder /\ AllPersistedAs(Placeholder)
        \/ /\ RespondedNavigations # {}
           /\ \E i \in RespondedNavigations :
                 /\ \A j \in RespondedNavigations : j <= i
                 /\ AllPersistedAs(history[i].startCommandId)

\* C28 amended: as stated when a navigation of the tab reached HttpResponded;
\* when none did, a placeholder is replaced by the greatest command id among
\* the DOM changes of the message, and stays -1 when there is none.
C28_PlaceholdersResolved ==
    ~pageEvents.pending =>
        IF RespondedNavigations # {}
        THEN \E i \in RespondedNavigations :
                 /\ \A j \in RespondedNavigations : j <= i
                 /\ AllPersistedAs(history[i].startCommandId)
        ELSE \E id \in EventCommandIds :
                 /\ \A i \in DOMAIN pageEvents.domChanges :
                       pageEvents.domChanges[i].commandId <= id
                 /\ id = Placeholder \/ \E i \in DOMAIN pageEvents.domChanges :
                       pageEvents.domChanges[i].commandId = id
                 /\ AllPersistedAs(id)

\* placeholders were replaced by the start of an earlier navigation, the
\* last one not having responded, next to events that kept their ids
C28_Witness ==
    /\ ~pageEvents.pending
    /\ Len(history) = 2
    /\ "HttpResponded" \in history[1].stateChanges
    /\ "HttpResponded" \notin history[2].stateChanges
    /\ history[1].startCommandId # history[2].startCommandId
    /\ \E i, j \in DOMAIN mouseEventRows :
          /\ i < j
          /\ pageEvents.mouseEvents[i].commandId = Placeholder
          /\ mouseEventRows[i].commandId = history[1].startCommandId
          /\ pageEvents.mouseEvents[j].commandId # Placeholder

(***************************************************************************)
(* C30: the waiters of an announced status are released first in first out *)
(***************************************************************************)
\* the waiters resolved by the step, in the order of their resolve()
NewlyReleased == SubSeq(resolveOrder', Len(resolveOrder) + 1, Len(resolveOrder'))

\* those of them that waited for status
NewlyReleasedOf(status) ==
    SelectSeq(NewlyReleased, LAMBDA w : waits[w].status = status)

\* the statuses a step announces: the trigger of a navigation requested that
\* is not a new tab's first, the pipeline steps the top navigation passed
Announces(status) ==
    IF Len(history') > Len(history)
    THEN /\ top'.navigationReason # "newTab"
         /\ status = getTriggerForNavigationReason(top'.navigationReason)
    ELSE /\ hasTop
         /\ status \in StatusesToAnnounce(currentStep, currentStep')

\* C30: a step that announces a status releases the waiters registered for
\* it in the order they were registered and leaves its list empty; the list
\* of a status that is not announced is unchanged and none of its waiters is
\* released.
C30_WaitersReleasedFifo ==
    [][\A status \in LocationStatuses :
          IF Announces(status)
          THEN /\ waitForCbs'[status] = <<>>
               /\ NewlyReleasedOf(status) = waitForCbs[status]
          ELSE /\ waitForCbs'[status] = waitForCbs[status]
               /\ NewlyReleasedOf(status) = <<>>]_vars

\* two waiters of one status were released, the first registered first
C30_Witness ==
    /\ Len(resolveOrder) >= 2
    /\ waits[resolveOrder[1]].status = waits[resolveOrder[2]].status
    /\ resolveOrder[1] < resolveOrder[2]

(***************************************************************************)
(* C31: the default anchor set by willRunCommand                           *)
(***************************************************************************)
\* a command starts in this step; Started is its name, its id the position
Starts == Len(commands') = Len(commands) + 1
Started == commands'[Len(commands')]

\* the previous commands that mark an anchor: a goto, or a command that is
\* no waitFor* right after a waitFor*
AnchorMarks ==
    {i \in DOMAIN commands :
        \/ commands[i] = "goto"
        \/ /\ i > 1
           /\ commands[i - 1] \in {"waitForLocation", "waitForElement"}
           /\ commands[i] \notin {"waitForLocation", "waitForElement"}}

\* a waitForLocation starts right after a waitFor* command
SecondWaitInARow ==
    /\ Started = "waitForLocation"
    /\ commands # <<>>
    /\ commands[Len(commands)] \in {"waitForLocation", "waitForElement"}

\* C31: when a command starts, the default anchor becomes the id of the new
\* command if it is a waitForLocation right after a waitFor* command;
\* otherwise the id of the last previous command that is a goto or a
\* non-waitFor* command right after a waitFor*; it stays when there is none.
\* After a second waitForLocation in a row no navigation of the history
\* satisfies a wait at the default anchor.
C31_DefaultAnchor ==
    [][Starts =>
          /\ defaultWaitForLocationCommandId' =
                IF SecondWaitInARow THEN Len(commands')
                ELSE IF AnchorMarks = {} THEN defaultWaitForLocationCommandId
                ELSE CHOOSE i \in AnchorMarks : \A j \in AnchorMarks : j <= i
          /\ SecondWaitInARow =>
                \A i \in DOMAIN history :
                    history[i].startCommandId < defaultWaitForLocationCommandId'
      ]_vars

\* a second waitForLocation in a row moved the anchor past a navigation and
\* the wait made at the default anchor is suspended
C31_Witness ==
    /\ Len(commands) >= 2
    /\ commands[Len(commands)] = "waitForLocation"
    /\ commands[Len(commands) - 1] = "waitForLocation"
    /\ history # <<>>
    /\ defaultWaitForLocationCommandId = Len(commands)
    /\ \E w \in DOMAIN waits : waits[w].since = Len(commands) /\ ~waits[w].immediate

(***************************************************************************)
(* C32, C35: trigger waits and their anchors                               *)
(***************************************************************************)
\* the navigation reason counts as the trigger T
MapsTo(reason, T) ==
    /\ reason # "newTab"
    /\ T = "reload" <=> reason \in ReloadReasons

C35_ResolvedOnlyByOwnNavigation ==
    [][\A w \in DOMAIN waits :
          (waits[w].status \in LocationTrigger /\ Woken(w)) =>
             /\ Requests
             /\ MapsTo(Requested.navigationReason, waits[w].status)
             /\ StartsAfter(Requested, waits[w].since, waits[w].inclusive)
      ]_vars

\* the part of C35 on the reason: a navigation resolves only the waits of
\* the trigger its reason maps to
C35_ResolvedOnlyByOwnTrigger ==
    [][\A w \in DOMAIN waits :
          (waits[w].status \in LocationTrigger /\ Woken(w)) =>
             /\ Requests
             /\ MapsTo(Requested.navigationReason, waits[w].status)
      ]_vars

\* how often the listener function stands in the listener list of a resource
RegistrationsOf(r, l) ==
    Cardinality({i \in DOMAIN websocketListeners[r] : websocketListeners[r][i] = l})

\* C33: a captured websocket message is attributed to the resource id of the
\* last entry of the redirect chain registered for its browser request id at
\* capture time, and is fanned out only to the listeners registered for that
\* resource id.
C33_AttributedToFinalRedirect ==
    [][\A b \in BrowserRequestIds :
          (browserRequestIdToResources[b] # <<>> /\ captureWebsocketMessage(b)) =>
              LET chain == browserRequestIdToResources[b]
                  last == chain[Len(chain)]
                  message == websocketMessages'[Len(websocketMessages')]
              IN  /\ Len(websocketMessages') = Len(websocketMessages) + 1
                  /\ message.resourceId = last
                  /\ \A l \in Listeners :
                        /\ SubSeq(delivered'[l], 1, Len(delivered[l])) = delivered[l]
                        /\ Len(delivered'[l]) - Len(delivered[l]) =
                              IF captureReturns'[Len(captureReturns')] = Thrown
                              THEN 0 ELSE RegistrationsOf(last, l)
                        /\ \A k \in (Len(delivered[l]) + 1) .. Len(delivered'[l]) :
                              /\ delivered'[l][k].resourceId = last
                              /\ delivered'[l][k].messageId = message.messageId
                              /\ ~delivered'[l][k].replayed]_vars

\* a message of a request id whose chain holds two resources went to the
\* listener of the second resource
C33_Witness ==
    \E b \in BrowserRequestIds, l \in Listeners :
        /\ Len(browserRequestIdToResources[b]) = 2
        /\ browserRequestIdToResources[b][1] # browserRequestIdToResources[b][2]
        /\ Len(websocketMessages) = 1
        /\ websocketMessages[1].resourceId = browserRequestIdToResources[b][2]
        /\ Len(delivered[l]) = 1
        /\ ~delivered[l][1].replayed

\* C34: for every browser request id the redirect chain holds the resources
\* sharing that request id in capture order, each resource id at most once,
\* after any sequence of request, response and error captures of them.
C34_ChainHoldsEachResourceOnce ==
    \A b \in BrowserRequestIds :
        \A i, j \in DOMAIN browserRequestIdToResources[b] :
            i < j => browserRequestIdToResources[b][i] # browserRequestIdToResources[b][j]

\* the chains are only appended to, one entry per capture, so they are in
\* capture order
C34_ChainsInCaptureOrder ==
    [][\A b \in BrowserRequestIds :
          \/ browserRequestIdToResources'[b] = browserRequestIdToResources[b]
          \/ \E r \in ResourceIds :
                /\ resourceEventToMeta(b, r)
                /\ browserRequestIdToResources'[b] =
                      Append(browserRequestIdToResources[b], r)]_vars

\* how often the listener function was called with the message
DeliveriesOf(l, messageId) ==
    Cardinality({k \in DOMAIN delivered[l] : delivered[l][k].messageId = messageId})

\* C36: each websocket message captured for a resource is delivered exactly
\* once to a listener registered for that resource, whether it was registered
\* before the capture (live) or after it (replay), for any interleaving of
\* onWebsocketMessages, stopWebsocketMessages and captureWebsocketMessage.
C36_DeliveredExactlyOnce ==
    \A l \in Listeners, r \in ResourceIds :
        RegistrationsOf(r, l) > 0 =>
            \A i \in DOMAIN websocketMessages :
                websocketMessages[i].resourceId = r =>
                    DeliveriesOf(l, websocketMessages[i].messageId) = 1

\* a listener function that is on no listener list is called by no capture
C36_StoppedReceivesNothing ==
    [][\A l \in Listeners :
          ((\A r \in ResourceIds : RegistrationsOf(r, l) = 0)
              /\ \E b \in BrowserRequestIds : captureWebsocketMessage(b)) =>
                  delivered'[l] = delivered[l]]_vars

\* the createSession calls between their start and their return
InFlight == {c \in Calls : callState[c] \in {"waiting", "created", "creatingTab"}}

\* C37: a connection never auto-disconnects while one of its createSession
\* calls is in flight, and no session is registered on the connection after
\* its 'close' event, for any interleaving of a pending createSession, the
\* close of the other sessions and the expiry of the auto-shutdown timer.
C37_NoSessionAfterClose ==
    (closeEvents > 0 /\ isClosing) => sessionIds = {}

\* the expiry of the timer starts no disconnect while a createSession call
\* is in flight
C37_NoAutoDisconnectInFlight ==
    [][(autoShutdownTimeout /\ ~isClosing /\ isClosing') => InFlight = {}]_vars

\* the sessions createSession registered on the connection
Owned == {s \in Calls : callState[s] \in {"creatingTab", "done"}}

\* the connection has emitted 'close' and was not connected again, and no
\* disconnect is still waiting
Disconnected == closeEvents > 0 /\ isClosing /\ disconnectAwaits = <<>>

\* C38: after the disconnect calls made without a connect between them every
\* session owned by the connection is closed, the auto-shutdown timer is
\* cleared, isPersistent is false and 'close' was emitted exactly once.
C38_DisconnectIsIdempotent ==
    Disconnected =>
        /\ \A s \in Owned : session[s] = "closed"
        /\ ~autoShutdownTimer
        /\ ~isPersistent

\* the part about isPersistent alone
C38_NotPersistentAfterClose == Disconnected => ~isPersistent

\* a disconnect that finds the connection closing changes nothing, and each
\* one that does not emits one 'close'
C38_OneCloseEventPerDisconnect ==
    [][/\ closeEvents' \in {closeEvents, closeEvents + 1}
       /\ (isClosing /\ (disconnect \/ autoShutdownTimeout)) =>
              UNCHANGED <<sessionIds, session, isPersistent, closeEvents,
                          disconnectAwaits, isClosing>>
       /\ closeEvents' = closeEvents + 1 =>
              /\ Len(disconnectAwaits') = Len(disconnectAwaits) - 1
              /\ ~isPersistent']_vars

\* C39: createSession on a connection that is closing fails with a
\* 'Connection closed' error without acquiring a pool slot, creating a session
\* or adding to the connection's session set; through handleRequest this is
\* reported as an isError response.
C39_ClosingConnectionRefusesSession ==
    [][\A m \in 1 .. MaxRequests :
          /\ (isClosing /\ handleRequestCreateSession(m)) =>
                /\ callState'[m] = "failed"
                /\ UNCHANGED <<activeSessionCount, waitingForAvailability, session,
                               sessionIds, autoShutdownTimer, emitted>>
          /\ (callState[m] = "failed" /\ createSessionResponds(m)) =>
                /\ emitted' = Append(emitted, emitted'[Len(emitted')])
                /\ emitted'[Len(emitted')].responseId = m
                /\ emitted'[Len(emitted')].isError
                /\ emitted'[Len(emitted')].data = "Connection closed"
                /\ UNCHANGED poolVars
          /\ callState[m] = "failed" =>
                /\ callState'[m] = "failed"
                /\ session'[m] = "none"
                /\ m \notin sessionIds']_vars

\* a createSession request on the closing connection was answered with the
\* error while the session of an earlier request went on closing
C39_Witness ==
    \E m \in DOMAIN requests :
        /\ callState[m] = "failed"
        /\ requests[m].state = "threw"
        /\ \E i \in DOMAIN emitted :
              /\ emitted[i].responseId = m
              /\ emitted[i].isError
              /\ emitted[i].data = "Connection closed"
        /\ \E other \in Calls : session[other] \in {"closing", "closed"}
        /\ isClosing

\* C40: within one ScriptInstance generateSessionName never returns the same
\* session name twice, for any sequence of requested names (absent names,
\* repeated names, names equal to a generated suffixed name such as 'x-2').
C40_SessionNamesAreUnique ==
    \A i, j \in DOMAIN scriptInstance.names :
        i # j => scriptInstance.names[i] # scriptInstance.names[j]

\* the names are unique as long as no requested name carries a counter
C40_PlainNamesAreUnique ==
    (\A k \in DOMAIN scriptInstance.requested : scriptInstance.requested[k].suffix = <<>>)
        => C40_SessionNamesAreUnique

====
